---- MODULE Spec2Model ----
(***************************************************************************)
(* A model of the Facet data-access layer: the batch put / delete / get    *)
(* engine with its retry loop, the single-item operations, and the         *)
(* composite-key builder.  The remote store (Dynamo DB) is the             *)
(* environment: it answers a batch call with a set of unprocessed entries  *)
(* or rejects the call.                                                    *)
(***************************************************************************)
EXTENDS Integers, Sequences, FiniteSets, TLC

\* ------------------------------------------------------------------------
\* Program constants
\* ------------------------------------------------------------------------
WriteBatchSize == 25
GetBatchSize == 100
MaxWriteRetries == 5
MaxGetAttempts == 10

\* ------------------------------------------------------------------------
\* Bounds of the model
\* ------------------------------------------------------------------------
\* inputs have 0..MaxSmall records, or one full chunk plus 0..MaxSmall
MaxSmall == 2
\* the first MaxHot entries of a chunk can be throttled one by one
MaxHot == 1

VARIABLES
    op,               \* the operation called on the facet
    phase,            \* "idle", "running", "returned", "thrown"
    records,          \* the input records (or queries) of the call
    store,            \* the items of the table
    store0,           \* the items of the table when the call was made
    batches,          \* the chunks the input was split into
    pc,               \* per chunk: position of putBatch/deleteBatch/getBatch
    request,          \* per chunk: the entries of the store call in flight
    firstUnprocessed, \* per chunk: result.UnprocessedItems of the first call
    unprocessed,      \* per chunk: the local array `unprocessed`
    retries,          \* per chunk: `retries` / `attempts`
    itemsByKey,       \* per chunk: `itemsByKey`
    items,            \* per chunk: `items` gathered by getBatch
    calls,            \* per chunk: number of store calls issued
    accepted,         \* per chunk: keys the store has processed
    reason,           \* per chunk: the rejection reason of its promise
    chunkOut,         \* per chunk: the value its promise resolved with
    result,           \* what the call returned (or the error it threw)
    validateInput,    \* the facet's validateInput option
    options,          \* the condition option of a single-item put / delete
    callArgs,         \* the arguments of a call of a pure function (buildKey, ...)
    callOut,          \* << >>, or the one value that call returned
    partition,        \* the items of the queried partition, by ascending sort key
    pageCap,          \* items the store evaluates before its size cap ends a page
    resumeAtEnd,      \* the store returns a resume key for a page that ends
                      \* with the limit on the last item of the partition
    queryOptions,     \* the options of the query calls, the cursor apart
    pages,            \* the results of the list() calls made so far
    queryCalls,       \* number of store queries issued
    firstOut          \* << >>, or the one value first() returned

vars == <<op, phase, records, store, store0, batches, pc, request,
          firstUnprocessed, unprocessed, retries, itemsByKey, items, calls,
          accepted, reason, chunkOut, result, validateInput, options,
          callArgs, callOut, partition, pageCap, resumeAtEnd, queryOptions,
          pages, queryCalls, firstOut>>

callVars == <<callArgs, callOut>>

queryVars == <<partition, pageCap, resumeAtEnd, queryOptions, pages, queryCalls,
               firstOut>>

cfgVars == <<validateInput, options, callVars, queryVars>>

chunkVars == <<pc, request, firstUnprocessed, unprocessed, retries,
               itemsByKey, items, calls, accepted, reason, chunkOut>>

\* ------------------------------------------------------------------------
\* Records, keys and the wire format
\* ------------------------------------------------------------------------
\* A record is [id, key, valid]: `key` stands for the string
\* facet.pk(record) + facet.sk(record), `valid` for the validator's verdict.
MkRecord(i, dup, bad) ==
    [id |-> i, key |-> IF i = dup THEN 1 ELSE i, valid |-> i # bad]

MkInput(n, dup, bad) == [i \in 1..n |-> MkRecord(i, dup, bad)]

KeyOf(r) == r.key

Validator(r) == r.valid

\* Facet.in: the record's attributes plus the constructed key attributes
FacetIn(r) == [PK |-> KeyOf(r), attrs |-> r]

\* Facet.out strips the key attributes; the caller checks Validator first
FacetOut(item) == item.attrs

NoError == "none"
NotProcessed == "Item was not processed"
TransportError == "transport error"
ValidationError == "validation error"

\* the sequence of the elements of a set of integers, ascending
RECURSIVE SortedSeq(_)
SortedSeq(S) ==
    IF S = {} THEN << >>
    ELSE LET m == CHOOSE x \in S : \A y \in S : x <= y
         IN <<m>> \o SortedSeq(S \ {m})

Range(s) == {s[i] : i \in 1..Len(s)}

\* ------------------------------------------------------------------------
\* putItems / deleteItems: chunking
\* ------------------------------------------------------------------------
\* a split that takes one record too many for each chunk
RECURSIVE ChunkOversized(_, _)
ChunkOversized(rs, size) ==
    IF Len(rs) >= 1
    THEN LET n == IF Len(rs) < size + 1 THEN Len(rs) ELSE size + 1
         IN <<SubSeq(rs, 1, n)>> \o ChunkOversized(SubSeq(rs, n + 1, Len(rs)), size)
    ELSE << >>

\* while (recordsToBatch.length >= 1) batches.push(recordsToBatch.splice(0, size))
RECURSIVE Chunk(_, _)
Chunk(rs, size) ==
    IF Len(rs) >= 1
    THEN LET n == IF Len(rs) < size THEN Len(rs) ELSE size
         IN <<SubSeq(rs, 1, n)>> \o Chunk(SubSeq(rs, n + 1, Len(rs)), size)
    ELSE << >>

\* ------------------------------------------------------------------------
\* putBatch / deleteBatch: de-duplication by key
\* ------------------------------------------------------------------------
\* an assignment that leaves an existing key as it is
UpsertKeepingFirst(obj, key, value) ==
    IF \E j \in 1..Len(obj) : obj[j].key = key
    THEN obj
    ELSE Append(obj, [key |-> key, value |-> value])

\* obj[key] = value on an object with insertion-ordered keys
Upsert(obj, key, value) ==
    IF \E j \in 1..Len(obj) : obj[j].key = key
    THEN [j \in 1..Len(obj) |->
             IF obj[j].key = key THEN [key |-> key, value |-> value] ELSE obj[j]]
    ELSE Append(obj, [key |-> key, value |-> value])

Lookup(obj, key) == {obj[j].value : j \in {i \in 1..Len(obj) : obj[i].key = key}}

Remove(obj, key) == SelectSeq(obj, LAMBDA e : e.key # key)

Values(obj) == [j \in 1..Len(obj) |-> obj[j].value]

\* the record kept for later reporting: facet.out(item) for a put, the
\* batch item itself for a delete
KeptRecord(kind, r) == IF kind = "put" THEN FacetOut(FacetIn(r)) ELSE r

RECURSIVE BuildItemsByKey(_, _)
BuildItemsByKey(kind, batch) ==
    IF batch = << >> THEN << >>
    ELSE LET r == batch[Len(batch)]
         IN Upsert(BuildItemsByKey(kind, SubSeq(batch, 1, Len(batch) - 1)),
                   KeyOf(r), KeptRecord(kind, r))

\* one write request per key, in insertion order; `item` is the Item of a
\* PutRequest and stands for the Key {PK, SK} of a DeleteRequest
WriteRequestOf(kind, e) ==
    IF kind = "put"
    THEN [type |-> "PutRequest", key |-> e.key, item |-> FacetIn(e.value)]
    ELSE [type |-> "DeleteRequest", key |-> e.key, item |-> FacetIn(e.value)]

BuildWriteRequests(kind, batch) ==
    LET obj == BuildItemsByKey(kind, batch)
    IN [j \in 1..Len(obj) |-> WriteRequestOf(kind, obj[j])]

\* Facet.in throws when validateInput is set and the validator rejects
InThrows(r) == validateInput /\ ~Validator(r)

\* Facet.out throws when the validator rejects the unmarshalled record
OutThrows(item) == ~Validator(FacetOut(item))

\* facet.in(batchItem) or facet.out(item) throws inside the loop of
\* putBatch; deleteBatch calls neither
BuildThrows(kind, batch) ==
    kind = "put" /\ \E j \in 1..Len(batch) :
                        InThrows(batch[j]) \/ OutThrows(FacetIn(batch[j]))

\* ------------------------------------------------------------------------
\* putBatch / deleteBatch: reconciliation after the retry loop
\* ------------------------------------------------------------------------
\* the test with the request kinds mixed up
HasPutRequestWrongKind(req) == req.type = "DeleteRequest"

\* `if (unprocessedRequest.PutRequest)` / `if (unprocessedRequest.PutRequest?.Item)`
HasPutRequest(req) == req.type = "PutRequest"

\* the loop over result.UnprocessedItems[tableName]: returns the pair
\* <<failed, itemsByKey>> after the loop
RECURSIVE Reconcile(_, _, _)
Reconcile(reqs, failed, obj) ==
    IF reqs = << >> THEN <<failed, obj>>
    ELSE LET req == Head(reqs)
             hit == IF HasPutRequest(req) THEN Lookup(obj, req.item.PK) ELSE {}
         IN IF HasPutRequest(req) /\ hit # {}
            THEN Reconcile(Tail(reqs),
                           Append(failed, [record |-> CHOOSE r \in hit : TRUE,
                                           error |-> NotProcessed]),
                           Remove(obj, req.item.PK))
            ELSE Reconcile(Tail(reqs), failed, obj)

\* the PutResponse / DeleteResponse a chunk resolves with
BatchResponse(firstUnproc, obj) ==
    LET rec == Reconcile(firstUnproc, << >>, obj)
    IN [ok |-> Values(rec[2]), failed |-> rec[1]]

\* ------------------------------------------------------------------------
\* The store (the environment)
\* ------------------------------------------------------------------------
Keys == 1..(GetBatchSize + MaxSmall)

StoredRecord(k, bad) == [id |-> k, key |-> k, valid |-> k # bad]

\* the table holds the odd keys; the item of key `bad` fails validation
StoreWith(bad) == {FacetIn(StoredRecord(k, bad)) : k \in {j \in Keys : j % 2 = 1}}

RequestKeys(reqs) == {reqs[j].key : j \in 1..Len(reqs)}

\* the sets of entries the store may leave unprocessed: any subset of the
\* first MaxHot entries of the request, or the whole request
Throttle(reqs) ==
    SUBSET {reqs[j].key : j \in {i \in 1..Len(reqs) : i <= MaxHot}}
        \cup {RequestKeys(reqs)}

\* the table after the store processed the write requests `reqs`
ApplyWrites(items0, reqs) ==
    {it \in items0 : it.PK \notin RequestKeys(reqs)}
        \cup {reqs[j].item : j \in {i \in 1..Len(reqs) : reqs[i].type = "PutRequest"}}

NoResult == [none |-> TRUE]

\* what a throw leaves of the call
Thrown(message) == [error |-> message]
Throws(compiled) == "error" \in DOMAIN compiled

NoCondition == "none"

NoKeyArgs == [via |-> "none"]

StoreInit(stores, flags) ==
    /\ validateInput \in flags
    /\ options = NoCondition
    /\ op = "none"
    /\ phase = "idle"
    /\ records = << >>
    /\ store \in stores
    /\ store0 = store
    /\ batches = << >>
    /\ pc = << >>
    /\ request = << >>
    /\ firstUnprocessed = << >>
    /\ unprocessed = << >>
    /\ retries = << >>
    /\ itemsByKey = << >>
    /\ items = << >>
    /\ calls = << >>
    /\ accepted = << >>
    /\ reason = << >>
    /\ chunkOut = << >>
    /\ result = NoResult

\* no query is made
QueryIdle ==
    /\ partition = << >>
    /\ pageCap = 1
    /\ resumeAtEnd = FALSE
    /\ queryOptions = [via |-> "none"]
    /\ pages = << >>
    /\ queryCalls = 0
    /\ firstOut = << >>

InitWith(stores, flags) ==
    /\ StoreInit(stores, flags)
    /\ callArgs = NoKeyArgs
    /\ callOut = << >>
    /\ QueryIdle

\* ------------------------------------------------------------------------
\* Facet.put(records[]) / Facet.delete(records[])
\* ------------------------------------------------------------------------
\* inputs: up to MaxSmall records, or one full chunk and MaxSmall more;
\* all keys distinct, or record `dup` repeating the key of record 1, or
\* record 1 failing validation
WriteLens == (0..MaxSmall) \cup {WriteBatchSize + MaxSmall}

WriteInputs ==
    {MkInput(n, dup, 0) : n \in WriteLens, dup \in {0, 2, WriteBatchSize + 1}}
        \cup {MkInput(n, 0, 1) : n \in WriteLens}

NoChunkOut == [ok |-> << >>, failed |-> << >>]

\* putItems / deleteItems up to `await Promise.allSettled`: the input is
\* split and putBatch / deleteBatch is called on every chunk; each call
\* runs to its first await, i.e. it issues its first store call, or its
\* promise rejects when building the requests throws
StartBatchWrite(kind, rs) ==
    /\ phase = "idle"
    /\ op' = kind
    /\ phase' = "running"
    /\ records' = rs
    /\ store0' = store
    /\ LET bs == Chunk(rs, WriteBatchSize)
           C == 1..Len(bs)
       IN /\ batches' = bs
          /\ pc' = [c \in C |-> IF BuildThrows(kind, bs[c])
                                THEN "rejected" ELSE "awaitFirst"]
          /\ reason' = [c \in C |-> IF BuildThrows(kind, bs[c])
                                    THEN ValidationError ELSE NoError]
          /\ request' = [c \in C |-> IF BuildThrows(kind, bs[c])
                                     THEN << >> ELSE BuildWriteRequests(kind, bs[c])]
          /\ itemsByKey' = [c \in C |-> IF BuildThrows(kind, bs[c])
                                        THEN << >> ELSE BuildItemsByKey(kind, bs[c])]
          /\ calls' = [c \in C |-> IF BuildThrows(kind, bs[c]) THEN 0 ELSE 1]
          /\ firstUnprocessed' = [c \in C |-> << >>]
          /\ unprocessed' = [c \in C |-> << >>]
          /\ retries' = [c \in C |-> 0]
          /\ items' = [c \in C |-> << >>]
          /\ accepted' = [c \in C |-> {}]
          /\ chunkOut' = [c \in C |-> NoChunkOut]
    /\ UNCHANGED <<store, result>>
    /\ UNCHANGED cfgVars

PutItems == \E rs \in WriteInputs : StartBatchWrite("put", rs)

DeleteItems == \E rs \in WriteInputs : StartBatchWrite("delete", rs)

IsWrite == op \in {"put", "delete"}

\* the store answers the batchWriteItem call of chunk c, leaving the
\* entries with a key in U unprocessed; putBatch / deleteBatch runs on to
\* its next await (the backoff wait) or to its return
StoreAnswersWrite(c, U) ==
    LET unp == SelectSeq(request[c], LAMBDA q : q.key \in U)
        done == SelectSeq(request[c], LAMBDA q : q.key \notin U)
        first == IF pc[c] = "awaitFirst" THEN unp ELSE firstUnprocessed[c]
        again == Len(unp) > 0 /\ retries[c] < MaxWriteRetries
        resp == BatchResponse(first, itemsByKey[c])
    IN /\ store' = ApplyWrites(store, done)
       /\ accepted' = [accepted EXCEPT ![c] = @ \cup RequestKeys(done)]
       /\ firstUnprocessed' = [firstUnprocessed EXCEPT ![c] = first]
       /\ unprocessed' = [unprocessed EXCEPT ![c] = unp]
       /\ request' = [request EXCEPT ![c] = << >>]
       /\ IF again
          THEN /\ retries' = [retries EXCEPT ![c] = @ + 1]
               /\ pc' = [pc EXCEPT ![c] = "backoff"]
               /\ UNCHANGED <<chunkOut, itemsByKey>>
          ELSE /\ pc' = [pc EXCEPT ![c] = "done"]
               /\ chunkOut' = [chunkOut EXCEPT ![c] = resp]
               /\ itemsByKey' = [itemsByKey EXCEPT ![c] =
                                    Reconcile(first, << >>, @)[2]]
               /\ UNCHANGED retries
       /\ UNCHANGED <<op, phase, records, store0, batches, items, calls,
                      reason, result>>
       /\ UNCHANGED cfgVars

BatchWriteAnswer ==
    \E c \in DOMAIN pc :
        /\ phase = "running" /\ IsWrite
        /\ pc[c] \in {"awaitFirst", "awaitRetry"}
        /\ \E U \in Throttle(request[c]) : StoreAnswersWrite(c, U)

\* a retry that sends its request twice
WriteRetryTwice ==
    \E c \in DOMAIN pc :
        /\ phase = "running" /\ IsWrite
        /\ pc[c] = "backoff"
        /\ request' = [request EXCEPT ![c] = unprocessed[c]]
        /\ unprocessed' = [unprocessed EXCEPT ![c] = << >>]
        /\ calls' = [calls EXCEPT ![c] = @ + 2]
        /\ pc' = [pc EXCEPT ![c] = "awaitRetry"]
        /\ UNCHANGED <<op, phase, records, store, store0, batches,
                       firstUnprocessed, retries, itemsByKey, items, accepted,
                       reason, chunkOut, result>>
        /\ UNCHANGED cfgVars

\* the backoff wait of chunk c is over: the retry call is issued with
\* unprocessed.splice(0)
WriteRetry ==
    \E c \in DOMAIN pc :
        /\ phase = "running" /\ IsWrite
        /\ pc[c] = "backoff"
        /\ request' = [request EXCEPT ![c] = unprocessed[c]]
        /\ unprocessed' = [unprocessed EXCEPT ![c] = << >>]
        /\ calls' = [calls EXCEPT ![c] = @ + 1]
        /\ pc' = [pc EXCEPT ![c] = "awaitRetry"]
        /\ UNCHANGED <<op, phase, records, store, store0, batches,
                       firstUnprocessed, retries, itemsByKey, items, accepted,
                       reason, chunkOut, result>>
        /\ UNCHANGED cfgVars

\* the store call of chunk c rejects: the promise of the chunk rejects
BatchWriteReject ==
    \E c \in DOMAIN pc :
        /\ phase = "running" /\ IsWrite
        /\ pc[c] \in {"awaitFirst", "awaitRetry"}
        /\ pc' = [pc EXCEPT ![c] = "rejected"]
        /\ reason' = [reason EXCEPT ![c] = TransportError]
        /\ request' = [request EXCEPT ![c] = << >>]
        /\ UNCHANGED <<op, phase, records, store, store0, batches,
                       firstUnprocessed, unprocessed, retries, itemsByKey,
                       items, calls, accepted, chunkOut, result>>
        /\ UNCHANGED cfgVars

\* a rejected chunk whose records are left out of the response
RejectedChunkDropped(batch, why) == << >>

\* failedBatch.map(failedItem => ({record: failedItem, error: result.reason}))
RejectedChunkFailures(batch, why) ==
    [j \in 1..Len(batch) |-> [record |-> batch[j], error |-> why]]

\* the loop over putResults.entries() from chunk c on
RECURSIVE Collect(_, _)
Collect(c, acc) ==
    IF c > Len(batches) THEN acc
    ELSE IF pc[c] = "rejected"
         THEN Collect(c + 1,
                      [ok |-> acc.ok,
                       failed |-> acc.failed
                                    \o RejectedChunkFailures(batches[c], reason[c])])
         ELSE Collect(c + 1,
                      [ok |-> acc.ok \o chunkOut[c].ok,
                       failed |-> acc.failed \o chunkOut[c].failed])

WriteResponse(kind, acc) ==
    IF kind = "put"
    THEN [hasFailures |-> Len(acc.failed) > 0, put |-> acc.ok, failed |-> acc.failed]
    ELSE [hasFailures |-> Len(acc.failed) > 0, deleted |-> acc.ok,
          failed |-> acc.failed]

\* Promise.allSettled resolved: every chunk has settled
WriteFanIn ==
    /\ phase = "running" /\ IsWrite
    /\ \A c \in DOMAIN pc : pc[c] \in {"done", "rejected"}
    /\ result' = WriteResponse(op, Collect(1, NoChunkOut))
    /\ phase' = "returned"
    /\ UNCHANGED <<op, records, store, store0, batches>>
    /\ UNCHANGED chunkVars
    /\ UNCHANGED cfgVars

InitWrite == InitWith({StoreWith(0)}, {FALSE})

NextWrite ==
    \/ PutItems
    \/ DeleteItems
    \/ BatchWriteAnswer
    \/ WriteRetry
    \/ BatchWriteReject
    \/ WriteFanIn

SpecWrite == InitWrite /\ [][NextWrite]_vars

\* ------------------------------------------------------------------------
\* Facet.get(queries[]): getBatchItems / getBatch
\* ------------------------------------------------------------------------
GetLens == (0..MaxSmall) \cup {GetBatchSize + MaxSmall}

\* queries with distinct keys, or with query 2 repeating the key of query 1
GetInputs == {MkInput(n, dup, 0) : n \in GetLens, dup \in {0, 2}}

\* keysToGet: one key per query, in order, duplicates included
KeysToGet(batch) == [j \in 1..Len(batch) |-> [type |-> "Key", key |-> KeyOf(batch[j])]]

\* the store rejects a batch request that names a key twice
HasDuplicateKeys(reqs) ==
    \E i, j \in 1..Len(reqs) : i < j /\ reqs[i].key = reqs[j].key

\* Responses[tableName] for the keys the store processed: the stored items
\* of those keys, in key order
StoreResponses(table, keys) ==
    LET found == {k \in keys : \E it \in table : it.PK = k}
        ordered == SortedSeq(found)
    IN [j \in 1..Len(ordered) |-> CHOOSE it \in table : it.PK = ordered[j]]

\* gatherItems keeping only the last response
GatherItemsOverwrite(acc, responses) ==
    [j \in 1..Len(responses) |-> FacetOut(responses[j])]

\* gatherItems: items.push(...response.map(item => facet.out(item)))
GatherItems(acc, responses) ==
    acc \o [j \in 1..Len(responses) |-> FacetOut(responses[j])]

GatherThrows(responses) == \E j \in 1..Len(responses) : OutThrows(responses[j])

\* batchResults.flat(1)
RECURSIVE Flat(_)
Flat(lists) == IF lists = << >> THEN << >> ELSE Head(lists) \o Flat(Tail(lists))

\* Facet.get on an array: [] for no query, else getBatchItems up to
\* `await Promise.all`: every chunk has issued its first batchGetItem
StartBatchGet(rs) ==
    /\ phase = "idle"
    /\ op' = "getBatch"
    /\ records' = rs
    /\ store0' = store
    /\ LET bs == IF Len(rs) = 0 THEN << >> ELSE Chunk(rs, GetBatchSize)
           C == 1..Len(bs)
       IN /\ batches' = bs
          /\ pc' = [c \in C |-> "awaitFirst"]
          /\ request' = [c \in C |-> KeysToGet(bs[c])]
          /\ calls' = [c \in C |-> 1]
          /\ reason' = [c \in C |-> NoError]
          /\ itemsByKey' = [c \in C |-> << >>]
          /\ firstUnprocessed' = [c \in C |-> << >>]
          /\ unprocessed' = [c \in C |-> << >>]
          /\ retries' = [c \in C |-> 0]
          /\ items' = [c \in C |-> << >>]
          /\ accepted' = [c \in C |-> {}]
          /\ chunkOut' = [c \in C |-> NoChunkOut]
    /\ IF Len(rs) = 0
       THEN phase' = "returned" /\ result' = [items |-> << >>]
       ELSE phase' = "running" /\ UNCHANGED result
    /\ UNCHANGED store
    /\ UNCHANGED cfgVars

GetItems == \E rs \in GetInputs : StartBatchGet(rs)

\* the store answers the batchGetItem call of chunk c, leaving the keys in
\* U unprocessed; getBatch gathers the responses and runs on to the backoff
\* wait or to its return.  When facet.out throws, the promise of the chunk
\* rejects and with it the Promise.all of getBatchItems
StoreAnswersGet(c, U) ==
    LET unp == SelectSeq(request[c], LAMBDA q : q.key \in U)
        got == StoreResponses(store, RequestKeys(request[c]) \ U)
        again == Len(unp) > 0 /\ retries[c] < MaxGetAttempts
    IN /\ accepted' = [accepted EXCEPT ![c] = @ \cup (RequestKeys(request[c]) \ U)]
       /\ request' = [request EXCEPT ![c] = << >>]
       /\ IF GatherThrows(got)
          THEN /\ pc' = [pc EXCEPT ![c] = "rejected"]
               /\ reason' = [reason EXCEPT ![c] = ValidationError]
               /\ phase' = "thrown"
               /\ result' = [error |-> ValidationError]
               /\ UNCHANGED <<items, firstUnprocessed, unprocessed, retries>>
          ELSE /\ items' = [items EXCEPT ![c] = GatherItems(@, got)]
               /\ firstUnprocessed' =
                      [firstUnprocessed EXCEPT
                          ![c] = IF pc[c] = "awaitFirst" THEN unp ELSE @]
               /\ unprocessed' = [unprocessed EXCEPT ![c] = unp]
               /\ IF again
                  THEN /\ retries' = [retries EXCEPT ![c] = @ + 1]
                       /\ pc' = [pc EXCEPT ![c] = "backoff"]
                  ELSE /\ pc' = [pc EXCEPT ![c] = "done"]
                       /\ UNCHANGED retries
               /\ UNCHANGED <<reason, phase, result>>
       /\ UNCHANGED <<op, records, store, store0, batches, itemsByKey, calls,
                      chunkOut>>
       /\ UNCHANGED cfgVars

BatchGetAnswer ==
    \E c \in DOMAIN pc :
        /\ phase = "running" /\ op = "getBatch"
        /\ pc[c] \in {"awaitFirst", "awaitRetry"}
        /\ ~HasDuplicateKeys(request[c])
        /\ \E U \in Throttle(request[c]) : StoreAnswersGet(c, U)

\* a retry that asks for every key of the chunk again
GetRetryWholeChunk ==
    \E c \in DOMAIN pc :
        /\ phase = "running" /\ op = "getBatch"
        /\ pc[c] = "backoff"
        /\ request' = [request EXCEPT ![c] = KeysToGet(batches[c])]
        /\ unprocessed' = [unprocessed EXCEPT ![c] = << >>]
        /\ calls' = [calls EXCEPT ![c] = @ + 1]
        /\ pc' = [pc EXCEPT ![c] = "awaitRetry"]
        /\ UNCHANGED <<op, phase, records, store, store0, batches,
                       firstUnprocessed, retries, itemsByKey, items, accepted,
                       reason, chunkOut, result>>
        /\ UNCHANGED cfgVars

\* the backoff wait of chunk c is over: getBatchKeys(unprocessed.splice(0))
GetRetry ==
    \E c \in DOMAIN pc :
        /\ phase = "running" /\ op = "getBatch"
        /\ pc[c] = "backoff"
        /\ request' = [request EXCEPT ![c] = unprocessed[c]]
        /\ unprocessed' = [unprocessed EXCEPT ![c] = << >>]
        /\ calls' = [calls EXCEPT ![c] = @ + 1]
        /\ pc' = [pc EXCEPT ![c] = "awaitRetry"]
        /\ UNCHANGED <<op, phase, records, store, store0, batches,
                       firstUnprocessed, retries, itemsByKey, items, accepted,
                       reason, chunkOut, result>>
        /\ UNCHANGED cfgVars

\* the batchGetItem call of chunk c rejects: getBatch has no handler, its
\* promise rejects, and Promise.all rejects getBatchItems with that reason
BatchGetReject ==
    \E c \in DOMAIN pc :
        /\ phase = "running" /\ op = "getBatch"
        /\ pc[c] \in {"awaitFirst", "awaitRetry"}
        /\ pc' = [pc EXCEPT ![c] = "rejected"]
        /\ reason' = [reason EXCEPT ![c] = TransportError]
        /\ request' = [request EXCEPT ![c] = << >>]
        /\ phase' = "thrown"
        /\ result' = [error |-> TransportError]
        /\ UNCHANGED <<op, records, store, store0, batches, firstUnprocessed,
                       unprocessed, retries, itemsByKey, items, calls, accepted,
                       chunkOut>>
        /\ UNCHANGED cfgVars

\* Promise.all resolved: every getBatch has returned its items; the array
\* the call returns is held in the field `items`, every outcome of a call
\* being a record
GetFanIn ==
    /\ phase = "running" /\ op = "getBatch"
    /\ \A c \in DOMAIN pc : pc[c] = "done"
    /\ phase' = "returned"
    /\ result' = [items |-> Flat(items)]
    /\ UNCHANGED <<op, records, store, store0, batches>>
    /\ UNCHANGED chunkVars
    /\ UNCHANGED cfgVars

\* ------------------------------------------------------------------------
\* Facet.get(query): getSingleItem
\* ------------------------------------------------------------------------
Null == [null |-> TRUE]

SingleInputs == {MkRecord(i, 0, bad) : i \in 1..MaxSmall, bad \in {0, 1}}

StoredItems(table, k) == {it \in table : it.PK = k}

\* getSingleItem up to `await getItem`
GetSingleItem ==
    \E q \in SingleInputs :
        /\ phase = "idle"
        /\ op' = "getSingle"
        /\ phase' = "running"
        /\ records' = <<q>>
        /\ store0' = store
        /\ UNCHANGED <<store, batches, result>>
        /\ UNCHANGED chunkVars
        /\ UNCHANGED cfgVars

\* the store answers getItem: the item is converted by facet.out, which
\* may throw, or null is returned when there is no item
GetItemAnswer ==
    /\ phase = "running" /\ op = "getSingle"
    /\ LET found == StoredItems(store, KeyOf(records[1]))
       IN IF found = {}
          THEN phase' = "returned" /\ result' = Null
          ELSE LET it == CHOOSE x \in found : TRUE
               IN IF OutThrows(it)
                  THEN phase' = "thrown" /\ result' = [error |-> ValidationError]
                  ELSE phase' = "returned" /\ result' = FacetOut(it)
    /\ UNCHANGED <<op, records, store, store0, batches>>
    /\ UNCHANGED chunkVars
    /\ UNCHANGED cfgVars

\* getItem rejects: nothing in getSingleItem or Facet.get catches it
GetItemReject ==
    /\ phase = "running" /\ op = "getSingle"
    /\ phase' = "thrown"
    /\ result' = [error |-> TransportError]
    /\ UNCHANGED <<op, records, store, store0, batches>>
    /\ UNCHANGED chunkVars
    /\ UNCHANGED cfgVars

InitGet == InitWith({StoreWith(0), StoreWith(1)}, {FALSE})

NextGet ==
    \/ GetItems
    \/ BatchGetAnswer
    \/ GetRetry
    \/ BatchGetReject
    \/ GetFanIn
    \/ GetSingleItem
    \/ GetItemAnswer
    \/ GetItemReject

SpecGet == InitGet /\ [][NextGet]_vars

\* ------------------------------------------------------------------------
\* Facet.put(record, options) / Facet.delete(record, options)
\* ------------------------------------------------------------------------
ConditionalCheckFailed == "The conditional request failed"
UnsupportedOperator == "unsupported operator"
ResponseError == "response error"

\* options.condition: none, [key, 'not_exists'], [key, 'exists'], or a
\* condition with an operator the compiler does not know
Conditions == {NoCondition, "not_exists", "exists", "unsupported"}

\* condition(options.condition) throws
CompileThrows(cond) == cond = "unsupported"

\* the store's verdict on the compiled condition for the item under key k
ConditionHolds(cond, table, k) ==
    CASE cond = "not_exists" -> StoredItems(table, k) = {}
      [] cond = "exists" -> StoredItems(table, k) # {}
      [] OTHER -> TRUE

\* a try block that ends before the store call
TryCoversBuildOnly(stage) == stage # "store"

\* the try block of putSingleItem / deleteSingleItem spans the whole body:
\* building the input ("build"), compiling the condition ("condition"),
\* the store call ("store") and the conversion of the result ("out")
TryCovers(stage) == TRUE

\* the value returned from the catch block
SingleFailure(kind, r, e) ==
    IF kind = "putSingle"
    THEN [record |-> r, wasSuccessful |-> FALSE, error |-> e]
    ELSE [failed |-> <<[error |-> e, record |-> r]>>, hasFailures |-> TRUE,
          deleted |-> << >>]

SingleSuccess(kind, r) ==
    IF kind = "putSingle"
    THEN [record |-> FacetOut(FacetIn(r)), wasSuccessful |-> TRUE]
    ELSE [failed |-> << >>, hasFailures |-> FALSE, deleted |-> <<r>>]

\* an error e is raised at `stage` of the single-item operation
Raise(kind, r, stage, e) ==
    /\ pc' = <<stage>>
    /\ reason' = <<e>>
    /\ IF TryCovers(stage)
       THEN phase' = "returned" /\ result' = SingleFailure(kind, r, e)
       ELSE phase' = "thrown" /\ result' = [error |-> e]

singleUnchanged == <<request, firstUnprocessed, unprocessed, retries,
                     itemsByKey, items, calls, accepted, chunkOut>>

\* putSingleItem / deleteSingleItem up to the await of the store call
StartSingleWrite(kind, r, cond) ==
    /\ phase = "idle"
    /\ op' = kind
    /\ records' = <<r>>
    /\ options' = cond
    /\ store0' = store
    /\ IF kind = "putSingle" /\ InThrows(r)
       THEN Raise(kind, r, "build", ValidationError)
       ELSE IF cond # NoCondition /\ CompileThrows(cond)
            THEN Raise(kind, r, "condition", UnsupportedOperator)
            ELSE /\ phase' = "running"
                 /\ pc' = <<"await">>
                 /\ reason' = <<NoError>>
                 /\ UNCHANGED result
    /\ UNCHANGED <<store, batches, validateInput>>
    /\ UNCHANGED singleUnchanged
    /\ UNCHANGED <<callVars, queryVars>>

PutSingleItem ==
    \E r \in SingleInputs, cond \in Conditions : StartSingleWrite("putSingle", r, cond)

DeleteSingleItem ==
    \E r \in SingleInputs, cond \in Conditions : StartSingleWrite("deleteSingle", r, cond)

IsSingleWrite == op \in {"putSingle", "deleteSingle"}

\* the store answers putItem: it rejects when the condition fails, else
\* it writes the item and putSingleItem converts it back with facet.out
PutItemAnswer ==
    /\ phase = "running" /\ op = "putSingle"
    /\ LET r == records[1]
           it == FacetIn(r)
       IN IF ~ConditionHolds(options, store, KeyOf(r))
          THEN Raise(op, r, "store", ConditionalCheckFailed) /\ UNCHANGED store
          ELSE /\ store' = ApplyWrites(store, <<[type |-> "PutRequest",
                                                  key |-> KeyOf(r), item |-> it]>>)
               /\ IF OutThrows(it)
                  THEN Raise(op, r, "out", ValidationError)
                  ELSE /\ phase' = "returned"
                       /\ result' = SingleSuccess(op, r)
                       /\ pc' = <<"done">>
                       /\ UNCHANGED reason
    /\ UNCHANGED <<op, records, store0, batches>>
    /\ UNCHANGED singleUnchanged
    /\ UNCHANGED cfgVars

\* the store answers deleteItem: it rejects when the condition fails, else
\* it removes the item
DeleteItemAnswer ==
    /\ phase = "running" /\ op = "deleteSingle"
    /\ LET r == records[1]
       IN IF ~ConditionHolds(options, store, KeyOf(r))
          THEN Raise(op, r, "store", ConditionalCheckFailed) /\ UNCHANGED store
          ELSE /\ store' = ApplyWrites(store, <<[type |-> "DeleteRequest",
                                                  key |-> KeyOf(r),
                                                  item |-> FacetIn(r)]>>)
               /\ phase' = "returned"
               /\ result' = SingleSuccess(op, r)
               /\ pc' = <<"done">>
               /\ UNCHANGED reason
    /\ UNCHANGED <<op, records, store0, batches>>
    /\ UNCHANGED singleUnchanged
    /\ UNCHANGED cfgVars

\* putItem / deleteItem rejects for a transport reason
SingleWriteReject ==
    /\ phase = "running" /\ IsSingleWrite
    /\ Raise(op, records[1], "store", TransportError)
    /\ UNCHANGED <<op, records, store, store0, batches>>
    /\ UNCHANGED singleUnchanged
    /\ UNCHANGED cfgVars

\* putItem resolves with a response that carries an error
\* (response.$response.error): returned as a failure without the catch
PutItemErrorResponse ==
    /\ phase = "running" /\ op = "putSingle"
    /\ pc' = <<"store">>
    /\ reason' = <<ResponseError>>
    /\ phase' = "returned"
    /\ result' = SingleFailure(op, records[1], ResponseError)
    /\ UNCHANGED <<op, records, store, store0, batches>>
    /\ UNCHANGED singleUnchanged
    /\ UNCHANGED cfgVars

InitSingle == InitWith({StoreWith(0)}, BOOLEAN)

NextSingle ==
    \/ PutSingleItem
    \/ DeleteSingleItem
    \/ PutItemAnswer
    \/ DeleteItemAnswer
    \/ SingleWriteReject
    \/ PutItemErrorResponse
    \/ GetSingleItem
    \/ GetItemAnswer
    \/ GetItemReject

SpecSingle == InitSingle /\ [][NextSingle]_vars

\* ------------------------------------------------------------------------
\* crcShard and buildKey
\* ------------------------------------------------------------------------
MaxInt32 == 2147483647

HexDigit(d) ==
    CASE d = 0 -> "0" [] d = 1 -> "1" [] d = 2 -> "2" [] d = 3 -> "3"
      [] d = 4 -> "4" [] d = 5 -> "5" [] d = 6 -> "6" [] d = 7 -> "7"
      [] d = 8 -> "8" [] d = 9 -> "9" [] d = 10 -> "a" [] d = 11 -> "b"
      [] d = 12 -> "c" [] d = 13 -> "d" [] d = 14 -> "e" [] d = 15 -> "f"

\* Number.prototype.toString(radix) of an integer
RECURSIVE Digits(_, _)
Digits(n, radix) ==
    IF n < radix THEN HexDigit(n)
    ELSE Digits(n \div radix, radix) \o HexDigit(n % radix)

NumberToString(n, radix) ==
    IF n < 0 THEN "-" \o Digits(0 - n, radix) ELSE Digits(n, radix)

\* String.prototype.padStart(length, '0')
RECURSIVE PadStart(_, _)
PadStart(str, length) ==
    IF Len(str) >= length THEN str ELSE PadStart("0" \o str, length)

\* a JavaScript number as a shard count can be one: NaN, Infinity, or the
\* finite value wraps * 2^32 + rem (+ 1/2 when half), rem a signed 32-bit
\* integer
JSNumber(wraps, rem, half) ==
    [kind |-> "finite", wraps |-> wraps, rem |-> rem, half |-> half]
NaN == [kind |-> "NaN", wraps |-> 0, rem |-> 0, half |-> FALSE]
Infinity == [kind |-> "Infinity", wraps |-> 0, rem |-> 0, half |-> FALSE]
Whole(n) == JSNumber(0, n, FALSE)

\* x < 1 (false for NaN)
LessThanOne(x) ==
    /\ x.kind = "finite"
    /\ \/ x.wraps < 0
       \/ x.wraps = 0 /\ x.rem < 1

\* ~~x: 0 for NaN and Infinity; otherwise x truncated towards zero and
\* reduced modulo 2^32 into the signed 32-bit range
ToInt32(x) ==
    IF x.kind # "finite" THEN 0
    ELSE IF x.half /\ (x.wraps < 0 \/ (x.wraps = 0 /\ x.rem < 0))
         THEN IF x.rem = MaxInt32 THEN (0 - MaxInt32) - 1 ELSE x.rem + 1
         ELSE x.rem

\* x >>> 1 of a signed 32-bit integer: the value read as unsigned, halved;
\* for a negative x that is 2^31 + floor(x / 2)
UnsignedShiftRight1(x) ==
    IF x >= 0 THEN x \div 2 ELSE (MaxInt32 + (x \div 2)) + 1

\* CRC32.bstr: the signed CRC-32 checksum of the string
CRC32bstr(str) ==
    CASE str = "" -> 0
      [] str = "abc" -> 891568578
      [] str = "p2" -> -1506723191
      [] str = "7" -> 1790921346
      [] str = "aabc" -> 1757140906
      [] str = "ap2" -> 1371295859
      [] str = "a7" -> -2055017194

\* a % b for a >= 0, then .toString(16): the remainder has the sign of a,
\* and a % 0 is NaN
RemainderToString(a, b) ==
    IF b = 0 THEN "NaN"
    ELSE NumberToString(a % (IF b < 0 THEN 0 - b ELSE b), 16)

\* the body of crcShard after the checksum is taken
ShardOfChecksum(crc, shardCount) ==
    LET count == IF LessThanOne(shardCount) THEN 1 ELSE ToInt32(shardCount)
        padLength == Len(NumberToString(count - 1, 16))
    IN PadStart(RemainderToString(UnsignedShiftRight1(crc), count), padLength)

crcShard(str, shardCount) == ShardOfChecksum(CRC32bstr(str), shardCount)

\* values of record fields, by JavaScript type
Str(v) == [t |-> "string", v |-> v]
Num(v) == [t |-> "number", n |-> v]
Bool(v) == [t |-> "boolean", b |-> v]
DateOf(iso, text) == [t |-> "date", iso |-> iso, text |-> text]
Undefined == [t |-> "undefined"]
NullValue == [t |-> "null"]
ObjectValue == [t |-> "object"]

\* `${value}` of a string, number, boolean or bigint
TemplateString(value) ==
    CASE value.t = "string" -> value.v
      [] value.t \in {"number", "bigint"} -> NumberToString(value.n, 10)
      [] value.t = "boolean" -> IF value.b THEN "true" ELSE "false"

\* the string Array.prototype.join makes of one element
JoinString(value) ==
    CASE value.t \in {"string", "number", "bigint", "boolean"} -> TemplateString(value)
      [] value.t = "date" -> value.text
      [] value.t = "object" -> "[object Object]"
      [] OTHER -> ""

\* array.join(separator)
RECURSIVE Join(_, _)
Join(parts, separator) ==
    IF parts = << >> THEN ""
    ELSE IF Len(parts) = 1 THEN parts[1]
         ELSE parts[1] \o separator \o Join(Tail(parts), separator)

\* model[key]: a field the record does not have is undefined
Field(model, key) == IF key \in DOMAIN model THEN model[key] ELSE Undefined

\* valuesToHash.join(''): the shard-key values that are != undefined
RECURSIVE KeyToHash(_, _)
KeyToHash(shardKeys, model) ==
    IF shardKeys = << >> THEN ""
    ELSE LET value == Field(model, Head(shardKeys))
         IN (IF value.t \in {"undefined", "null"} THEN "" ELSE JoinString(value))
                \o KeyToHash(Tail(shardKeys), model)

\* the test `if (shard)` on the shard argument
ShardGiven(shard) == shard.t = "number" /\ shard.n # 0

\* the shard segment pushed when the configuration has a shard
ShardSegment(shardConfig, model, shard) ==
    IF ShardGiven(shard)
    THEN PadStart(NumberToString(shard.n, 16),
                  Len(NumberToString(shardConfig.count - 1, 16)))
    ELSE crcShard(KeyToHash(shardConfig.keys, model), Whole(shardConfig.count))

\* the loop over keyConfig.keys: one segment per primitive or Date value
RECURSIVE FieldSegments(_, _)
FieldSegments(keys, model) ==
    IF keys = << >> THEN << >>
    ELSE LET value == Field(model, Head(keys))
             rest == FieldSegments(Tail(keys), model)
         IN CASE value.t \in {"bigint", "boolean", "number", "string"} ->
                    <<TemplateString(value)>> \o rest
              [] value.t = "date" -> <<value.iso>> \o rest
              [] OTHER -> rest

HasShard(keyConfig) == keyConfig.shard.count # 0

\* a Date whose time value is NaN: String(date) is "Invalid Date" and
\* date.toISOString() throws a RangeError with the message kept in `iso`
InvalidDate == DateOf("Invalid time value", "Invalid Date")

\* value.toISOString() throws for one of the key fields
ToISOStringThrows(keys, model) ==
    \E i \in 1..Len(keys) : Field(model, keys[i]) = InvalidDate

\* a key that carries the record's postId whether the configuration names
\* it or not
buildKeyWithPostId(keyConfig, model, delimiter, shard) ==
    Join(<<keyConfig.prefix>>
            \o (IF HasShard(keyConfig)
                THEN <<ShardSegment(keyConfig.shard, model, shard)>>
                ELSE << >>)
            \o FieldSegments(keyConfig.keys, model)
            \o FieldSegments(<<"postId">>, model),
         delimiter)

buildKey(keyConfig, model, delimiter, shard) ==
    Join(<<keyConfig.prefix>>
            \o (IF HasShard(keyConfig)
                THEN <<ShardSegment(keyConfig.shard, model, shard)>>
                ELSE << >>)
            \o FieldSegments(keyConfig.keys, model),
         delimiter)

\* a key configuration without `shard`
NoShard == [keys |-> << >>, count |-> 0]

KeyConfigs ==
    {[prefix |-> "#STATUS", keys |-> <<"postStatus", "sendAt">>,
      shard |-> [keys |-> <<"postId">>, count |-> 4]],
     [prefix |-> "#POST", keys |-> <<"postId">>,
      shard |-> [keys |-> <<"pageId", "postId">>, count |-> 17]],
     [prefix |-> "#ONE", keys |-> <<"pageId">>,
      shard |-> [keys |-> <<"postId">>, count |-> 1]],
     [prefix |-> "#PAGE", keys |-> <<"pageId", "postStatus">>, shard |-> NoShard]}

SendAt == DateOf("2021-01-10T03:38:53.601Z", "Sun Jan 10 2021 03:38:53 GMT+0000")

KeyModels ==
    {[pageId |-> a, postId |-> b, postStatus |-> c, sendAt |-> d] :
        a \in {Str("a"), Undefined},
        b \in {Str("abc"), Str("p2"), Num(7)},
        c \in {Str("queued"), Bool(TRUE), NullValue, ObjectValue},
        d \in {SendAt, Undefined, InvalidDate}}

MaxShardArg == 3

\* the shard argument: not passed, null, or a bucket number
ShardArgs == {Undefined, NullValue} \cup {Num(n) : n \in 0..MaxShardArg}

Delimiters == {"_", "#"}

KeyArgSets ==
    [via : {"buildKey", "pk", "sk"}, keyConfig : KeyConfigs, model : KeyModels,
     delimiter : Delimiters, shard : ShardArgs]

\* a call that ends in buildKey(keyConfig, model, delimiter, shard): it
\* returns the key, or throws what toISOString throws
KeyCall(shard) ==
    /\ callOut = << >> /\ phase = "idle"
    /\ IF ToISOStringThrows(callArgs.keyConfig.keys, callArgs.model)
       THEN /\ phase' = "thrown"
            /\ result' = Thrown(InvalidDate.iso)
            /\ callOut' = callOut
       ELSE /\ phase' = "returned"
            /\ result' = result
            /\ callOut' = <<buildKey(callArgs.keyConfig, callArgs.model,
                                     callArgs.delimiter, shard)>>
    /\ UNCHANGED <<op, records, store, store0, batches, validateInput, options,
                   callArgs>>
    /\ UNCHANGED <<chunkVars, queryVars>>

\* a direct call buildKey(keyConfig, model, delimiter, shard)
BuildKey == callArgs.via = "buildKey" /\ KeyCall(callArgs.shard)

\* Facet.pk(model, shard): the shard argument is passed on as it is
FacetPk == callArgs.via = "pk" /\ KeyCall(callArgs.shard)

\* Facet.sk(model, shard): passes `shard ?? null`
FacetSk ==
    /\ callArgs.via = "sk"
    /\ KeyCall(IF callArgs.shard.t = "undefined" THEN NullValue ELSE callArgs.shard)

MaxCount == 17

\* checksums CRC32.bstr can return: the ends of the signed 32-bit range,
\* values around zero, and the checksums of "abc" and "p2"
Checksums ==
    {0, 1, 2, 30, 31, 33, -1, -2, MaxInt32, MaxInt32 - 1, 0 - MaxInt32,
     CRC32bstr("abc"), CRC32bstr("p2")}

\* shard counts: small integers, fractions, the powers of 16 and their
\* neighbours, the largest 32-bit integer, counts beyond 32 bits, NaN and
\* Infinity
ShardCounts ==
    {Whole(n) : n \in (-1..MaxCount) \cup {255, 256, 257, 4096, 4097, MaxInt32}}
        \cup {JSNumber(0, n, TRUE) : n \in {0, 1, 4, 16}}
        \cup {JSNumber(1, 4 - MaxInt32, FALSE), JSNumber(1, 0, FALSE),
               JSNumber(1, 16, FALSE), JSNumber(2, 0, FALSE), NaN, Infinity}

ShardArgSets == [via : {"crcShard"}, crc : Checksums, shardCount : ShardCounts]

\* a call crcShard(string, shardCount), callArgs.crc being the checksum of
\* the string
CrcShard ==
    /\ callArgs.via = "crcShard" /\ callOut = << >>
    /\ callOut' = <<ShardOfChecksum(callArgs.crc, callArgs.shardCount)>>
    /\ UNCHANGED <<op, phase, records, store, store0, batches, result,
                   validateInput, options, callArgs>>
    /\ UNCHANGED <<chunkVars, queryVars>>

InitKey ==
    /\ StoreInit({StoreWith(0)}, {FALSE})
    /\ callArgs \in KeyArgSets \cup ShardArgSets
    /\ callOut = << >>
    /\ QueryIdle

NextKey ==
    \/ BuildKey
    \/ FacetPk
    \/ FacetSk
    \/ CrcShard

SpecKey == InitKey /\ [][NextKey]_vars

\* ------------------------------------------------------------------------
\* buildConditionExpression
\* ------------------------------------------------------------------------
\* A condition expression is a leaf [field, operator, operands...] (the
\* array elements 0, 1 and the rest), a logic evaluation
\* [first, 'AND' | 'OR', second], or the object {NOT: expression}.
Leaf(field, operator, operands) ==
    [e0 |-> field, e1 |-> operator, rest |-> operands]
Logic(first, operator, second) ==
    [first |-> first, e1 |-> operator, second |-> second]
Not(expression) == [NOT |-> expression]

IsArray(expression) == "NOT" \notin DOMAIN expression

\* Converter.input: the typed attribute value of a string, number or Date
ConverterInput(value) ==
    CASE value.t = "number" -> [N |-> NumberToString(value.n, 10)]
      [] value.t = "string" -> [S |-> value.v]
      [] value.t = "date" -> [S |-> value.iso]

\* a nextPrefix that does not count
NextPrefixStuck(prefix, attributeCounter) == prefix \o "_0"

\* nextPrefix() when the counter is attributeCounter
NextPrefix(prefix, attributeCounter) ==
    prefix \o "_" \o NumberToString(attributeCounter, 16)

\* Object.assign(target, source)
ObjectAssign(target, source) == source @@ target

EmptyObject == << >>

Comparators == {"=", "<>", "<", "<=", ">", ">="}

\* a switch whose default case emits the operator as it is
CompileLeafAsIs(expression, placeholder) ==
    [names |-> ("#" \o placeholder) :> expression.e0,
     values |-> EmptyObject,
     expression |-> "#" \o placeholder \o " " \o expression.e1]

\* the cases of the switch for a leaf; `placeholder` is nextPrefix()
CompileLeaf(expression, placeholder) ==
    LET namePlaceholder == "#" \o placeholder
        valuePlaceholder == ":" \o placeholder
        operator == expression.e1
    IN CASE operator \in Comparators ->
              [names |-> namePlaceholder :> expression.e0,
               values |-> valuePlaceholder :> ConverterInput(expression.rest[1]),
               expression |-> namePlaceholder \o " " \o operator \o " "
                                \o valuePlaceholder]
         [] operator = "begins_with" ->
              [names |-> namePlaceholder :> expression.e0,
               values |-> valuePlaceholder :> ConverterInput(expression.rest[1]),
               expression |-> "begins_with (" \o namePlaceholder \o ", "
                                \o valuePlaceholder \o ")"]
         [] operator = "between" ->
              [names |-> namePlaceholder :> expression.e0,
               values |-> ((valuePlaceholder \o "_L") :>
                                ConverterInput(expression.rest[1]))
                          @@ ((valuePlaceholder \o "_R") :>
                                ConverterInput(expression.rest[2])),
               expression |-> namePlaceholder \o " BETWEEN " \o valuePlaceholder
                                \o "_L AND " \o valuePlaceholder \o "_R"]
         [] operator = "exists" ->
              [names |-> namePlaceholder :> expression.e0,
               values |-> EmptyObject,
               expression |-> "attribute_exists (" \o namePlaceholder \o ")"]
         [] operator = "not_exists" ->
              [names |-> namePlaceholder :> expression.e0,
               values |-> EmptyObject,
               expression |-> "attribute_not_exists (" \o namePlaceholder \o ")"]
         [] OTHER -> Thrown("Operator " \o operator \o " is not defined")

\* buildConditionExpression(expression, prefix); a throw in a recursive
\* call propagates through the callers
RECURSIVE buildConditionExpression(_, _)
buildConditionExpression(expression, prefix) ==
    IF ~IsArray(expression)
    THEN LET notExpression ==
                buildConditionExpression(expression.NOT, NextPrefix(prefix, 0))
         IN IF Throws(notExpression) THEN notExpression
            ELSE [notExpression EXCEPT
                    !.expression = "NOT (" \o notExpression.expression \o ")"]
    ELSE IF expression.e1 \in {"OR", "AND"}
         THEN LET first ==
                    buildConditionExpression(expression.first, NextPrefix(prefix, 0))
                  second ==
                    buildConditionExpression(expression.second, NextPrefix(prefix, 1))
              IN IF Throws(first) THEN first
                 ELSE IF Throws(second) THEN second
                 ELSE [names |-> ObjectAssign(ObjectAssign(EmptyObject, first.names),
                                              second.names),
                       values |-> ObjectAssign(ObjectAssign(EmptyObject, first.values),
                                               second.values),
                       expression |-> "(" \o first.expression \o ") " \o expression.e1
                                        \o " (" \o second.expression \o ")"]
         ELSE CompileLeaf(expression, NextPrefix(prefix, 0))

\* leaves of the condition tests, and the operators `contains`, `size` and
\* `in` of the Condition types
CreatedDate == DateOf("2021-07-09T22:41:05.578Z", "Fri Jul 09 2021 22:41:05 GMT+0000")

SupportedLeaves ==
    {Leaf("age", ">=", <<Num(21)>>), Leaf("age", "<", <<Num(15)>>),
     Leaf("age", "=", <<Num(21)>>), Leaf("createdDate", "<=", <<CreatedDate>>),
     Leaf("name", "begins_with", <<Str("larry")>>),
     Leaf("age", "between", <<Num(30), Num(39)>>),
     Leaf("isActive", "exists", << >>), Leaf("isActive", "not_exists", << >>)}

OtherLeaves ==
    {Leaf("favorites", "contains", <<Str("apples")>>),
     Leaf("name", "size", <<Str("<="), Num(10)>>),
     Leaf("age", "in", <<Num(21), Num(15)>>)}

DeepLeaves ==
    {Leaf("age", ">=", <<Num(21)>>), Leaf("age", "between", <<Num(30), Num(39)>>)}

\* the expressions over S with one more level of nesting
Nest(S) ==
    S \cup {Not(e) : e \in S}
      \cup {Logic(a, o, b) : a \in S, o \in {"AND", "OR"}, b \in S}

MaxDepth == 3

\* the expressions of at most `depth` levels over the leaves
RECURSIVE Trees(_, _)
Trees(depth, leaves) ==
    IF depth <= 1 THEN leaves ELSE Nest(Trees(depth - 1, leaves))

\* every leaf at up to two levels, two leaves at up to MaxDepth levels, and
\* the other leaves below a NOT and a logic evaluation
Expressions ==
    Trees(2, SupportedLeaves \cup OtherLeaves)
        \cup Trees(MaxDepth, DeepLeaves)
        \cup {Logic(Not(u), "OR", e) : u \in OtherLeaves, e \in Trees(2, DeepLeaves)}
        \cup {Not(Logic(e, "AND", u)) : u \in OtherLeaves, e \in Trees(2, DeepLeaves)}

ConditionArgSets == [via : {"buildConditionExpression"}, expression : Expressions]

\* a call buildConditionExpression(expression) with the default prefix 'C'
BuildConditionExpression ==
    /\ callArgs.via = "buildConditionExpression" /\ callOut = << >>
    /\ callOut' = <<buildConditionExpression(callArgs.expression, "C")>>
    /\ UNCHANGED <<op, phase, records, store, store0, batches, result,
                   validateInput, options, callArgs>>
    /\ UNCHANGED <<chunkVars, queryVars>>

InitCondition ==
    /\ StoreInit({StoreWith(0)}, {FALSE})
    /\ callArgs \in ConditionArgSets
    /\ callOut = << >>
    /\ QueryIdle

NextCondition == BuildConditionExpression

SpecCondition == InitCondition /\ [][NextCondition]_vars

\* ------------------------------------------------------------------------
\* PartitionQuery: list(), first() and the cursor
\* ------------------------------------------------------------------------
MaxItems == 3
MaxPage == 2
MaxLimit == 2

\* An item of the partition is [sk, matches, valid]: its sort key, the
\* verdict of the filter expression on it and the verdict of the validator.
\* The partition holds the items that satisfy the key condition of list(),
\* `#PK = :partition AND begins_with(#SK, :sort)`, by ascending sort key.
Partitions ==
    {[i \in 1..n |-> [sk |-> i, matches |-> i \in M, valid |-> i # bad]] :
        n \in 0..MaxItems, M \in SUBSET (1..MaxItems), bad \in 0..MaxItems}

\* the filter of the test 'Query Posts'
SomeFilter == Leaf("postStatus", "<>", <<Str("failed")>>)

QueryOptionSets ==
    [limit : {Undefined} \cup {Num(n) : n \in 1..MaxLimit},
     scanForward : {Undefined, Bool(TRUE), Bool(FALSE)},
     filter : {Undefined, SomeFilter}]

\* the primary key of an item, as the store names it in LastEvaluatedKey
LastKey(item) == [PK |-> "partition", SK |-> item.sk]

\* a cursor that names no item of the partition
encodeCursorOfNothing(lastKey) == [base64 |-> <<"PK", lastKey.PK, "SK", 0>>]

\* cbor.encode(lastKey).toString('base64'): the entries of the map in a row
encodeCursor(lastKey) == [base64 |-> <<"PK", lastKey.PK, "SK", lastKey.SK>>]

\* cbor.decode(Buffer.from(cursor, 'base64')), and {} for no cursor
decodeCursor(cursor) ==
    IF cursor = Undefined THEN EmptyObject
    ELSE [PK |-> cursor.base64[2], SK |-> cursor.base64[4]]

Reverse(seq) == [i \in 1..Len(seq) |-> seq[Len(seq) + 1 - i]]

Min(a, b) == IF a <= b THEN a ELSE b

\* the items of `evaluated` the filter lets through
RECURSIVE Filtered(_)
Filtered(evaluated) ==
    IF evaluated = << >> THEN << >>
    ELSE (IF Head(evaluated).matches THEN <<Head(evaluated)>> ELSE << >>)
            \o Filtered(Tail(evaluated))

\* the items of `ordered` that come after the item of `key`
RECURSIVE After(_, _)
After(ordered, key) ==
    IF ordered = << >> THEN << >>
    ELSE IF LastKey(Head(ordered)) = key THEN Tail(ordered)
         ELSE After(Tail(ordered), key)

\* dynamoDb.query(queryInput): the store walks the partition in the scan
\* direction from the start key on, evaluates items until Limit or its own
\* size cap is reached, applies the filter to the evaluated items, and
\* returns a resume key when it stopped before the end of the partition
StoreQuery(queryInput) ==
    LET ordered == IF queryInput.ScanIndexForward THEN partition
                   ELSE Reverse(partition)
        rest == IF "ExclusiveStartKey" \in DOMAIN queryInput
                THEN After(ordered, queryInput.ExclusiveStartKey)
                ELSE ordered
        limited == queryInput.Limit # Undefined
        n == Min(Len(rest),
                 IF limited THEN Min(queryInput.Limit.n, pageCap) ELSE pageCap)
        evaluated == SubSeq(rest, 1, n)
        Items == IF "FilterExpression" \in DOMAIN queryInput
                 THEN Filtered(evaluated) ELSE evaluated
        stopped == \/ n < Len(rest)
                   \/ n > 0 /\ resumeAtEnd /\ limited /\ n = queryInput.Limit.n
    IN IF stopped
       THEN [Items |-> Items, LastEvaluatedKey |-> LastKey(evaluated[n])]
       ELSE [Items |-> Items]

\* the query input beginsWith builds from the options: Limit and
\* ScanIndexForward, ExclusiveStartKey when a cursor is given and the
\* filter expression when a filter is given
QueryInput(opts) ==
    LET scanForward == IF opts.scanForward = Undefined THEN TRUE
                       ELSE opts.scanForward.b
        keyQuery == [Limit |-> opts.limit, ScanIndexForward |-> scanForward]
        started == IF opts.cursor # Undefined
                   THEN [ExclusiveStartKey |-> decodeCursor(opts.cursor)] @@ keyQuery
                   ELSE keyQuery
    IN IF opts.filter # Undefined
       THEN [FilterExpression |-> opts.filter] @@ started
       ELSE started

\* beginsWith({}, options): builds the query input, issues one store
\* query, converts the items with facet.out and attaches the cursor
beginsWith(opts) ==
    LET results == StoreQuery(QueryInput(opts))
    IN IF \E i \in 1..Len(results.Items) : ~Validator(results.Items[i])
       THEN Thrown(ValidationError)
       ELSE IF "LastEvaluatedKey" \in DOMAIN results
            THEN [records |-> results.Items,
                  cursor |-> encodeCursor(results.LastEvaluatedKey)]
            ELSE [records |-> results.Items]

\* list(options)
list(opts) == beginsWith(opts)

\* first({filter, scanForward, shard}): list with limit 1 and no cursor
first(opts) ==
    LET listResults == list([filter |-> opts.filter, limit |-> Num(1),
                             scanForward |-> opts.scanForward,
                             cursor |-> Undefined])
    IN IF Throws(listResults) THEN listResults
       ELSE IF listResults.records # << >> THEN listResults.records[1]
            ELSE Null

\* the cursor the caller passes to the next list(): none on the first
\* call, then the cursor of the page before
NextCursor ==
    IF pages = << >> THEN Undefined ELSE pages[Len(pages)].cursor

WithCursor(opts, cursor) == [cursor |-> cursor] @@ opts

\* one call list({...queryOptions, cursor}) of a caller that pages
\* through the partition until a result carries no cursor
ListPage ==
    /\ op \in {"none", "list"} /\ phase # "thrown"
    /\ IF pages = << >> THEN TRUE ELSE "cursor" \in DOMAIN pages[Len(pages)]
    /\ LET listed == list(WithCursor(queryOptions, NextCursor))
       IN IF Throws(listed)
          THEN /\ phase' = "thrown"
               /\ result' = listed
               /\ pages' = pages
          ELSE /\ phase' = "returned"
               /\ result' = listed
               /\ pages' = Append(pages, listed)
    /\ op' = "list"
    /\ queryCalls' = queryCalls + 1
    /\ UNCHANGED <<records, store, store0, batches, validateInput, options,
                   callVars, partition, pageCap, resumeAtEnd, queryOptions,
                   firstOut>>
    /\ UNCHANGED chunkVars

\* one call first(queryOptions); first() takes no limit and no cursor
First ==
    /\ op = "none"
    /\ queryOptions.limit = Undefined
    /\ LET found == first(queryOptions)
       IN /\ phase' = IF Throws(found) THEN "thrown" ELSE "returned"
          /\ result' = found
          /\ firstOut' = <<found>>
    /\ op' = "first"
    /\ queryCalls' = queryCalls + 1
    /\ UNCHANGED <<records, store, store0, batches, validateInput, options,
                   callVars, partition, pageCap, resumeAtEnd, queryOptions,
                   pages>>
    /\ UNCHANGED chunkVars

InitQuery ==
    /\ StoreInit({StoreWith(0)}, {FALSE})
    /\ callArgs = NoKeyArgs
    /\ callOut = << >>
    /\ partition \in Partitions
    /\ pageCap \in 1..MaxPage
    /\ resumeAtEnd \in BOOLEAN
    /\ queryOptions \in QueryOptionSets
    /\ pages = << >>
    /\ queryCalls = 0
    /\ firstOut = << >>

NextQuery ==
    \/ ListPage
    \/ First

SpecQuery == InitQuery /\ [][NextQuery]_vars

\* ------------------------------------------------------------------------
\* Facet.in and Facet.out
\* ------------------------------------------------------------------------
\* the key configurations of PostFacet and of its indexes GSI1 and GSI2
PostPK == [prefix |-> "#PAGE", keys |-> <<"pageId">>, shard |-> NoShard]
PostSK == [prefix |-> "#POST", keys |-> <<"postId">>, shard |-> NoShard]

GSI1 ==
    [index |-> "GSI1",
     PK |-> [prefix |-> "#STATUS", keys |-> <<"postStatus">>,
             shard |-> [keys |-> <<"postId">>, count |-> 4]],
     SK |-> [prefix |-> "#STATUS", keys |-> <<"sendAt">>, shard |-> NoShard]]

GSI2 ==
    [index |-> "GSI2",
     PK |-> [prefix |-> "#PAGE", keys |-> <<"pageId", "postStatus">>,
             shard |-> NoShard],
     SK |-> PostSK]

\* a facet: its indexes in the order they were added, and its ttl field
\* (Undefined when none is configured)
Facets ==
    [PK : {PostPK}, SK : {PostSK}, delimiter : {"_"},
     indexes : {<< >>, <<GSI1>>, <<GSI1, GSI2>>},
     ttl : {Undefined, Str("deleteAt")}]

\* IndexKeyNameMap[index]
IndexKeyNames(index) == [PK |-> index \o "PK", SK |-> index \o "SK"]

\* the numbers of the records, which Converter.unmarshall reads back
WireNumbers == {7, 1700000000}

\* posts: the fields of a record are the fields it has; deleteAt is absent,
\* a number, a numeric string, another string or a Date
PostModels ==
    LET required == [pageId : {Str("a")}, postId : {Str("abc"), Num(7)},
                     postStatus : {Str("queued"), Str("failed")}]
    IN required
        \cup {[deleteAt |-> d] @@ r :
                r \in required,
                d \in {Num(1700000000), Str("1700000000"), Str("abc"), SendAt}}

\* Converter.marshall of one value
AttributeValue(value) ==
    CASE value.t = "string" -> [S |-> value.v]
      [] value.t = "number" -> [N |-> NumberToString(value.n, 10)]
      [] value.t = "boolean" -> [BOOL |-> value.b]
      [] value.t = "date" -> [S |-> value.iso]
      [] value.t = "null" -> [NULL |-> TRUE]

\* Converter.marshall: the attributes whose value is not undefined
Marshall(object) ==
    [k \in {a \in DOMAIN object : object[a] # Undefined} |->
        AttributeValue(object[k])]

\* Converter.unmarshall of one attribute value
FromAttributeValue(attribute) ==
    IF "S" \in DOMAIN attribute THEN Str(attribute.S)
    ELSE IF "N" \in DOMAIN attribute
         THEN Num(CHOOSE n \in WireNumbers : NumberToString(n, 10) = attribute.N)
         ELSE IF "BOOL" \in DOMAIN attribute THEN Bool(attribute.BOOL)
              ELSE NullValue

Unmarshall(record) == [k \in DOMAIN record |-> FromAttributeValue(record[k])]

\* the GSInPK / GSInSK entries of facetKeys
RECURSIVE IndexKeys(_, _, _)
IndexKeys(indexes, model, delimiter) ==
    IF indexes = << >> THEN EmptyObject
    ELSE LET facetIndex == Head(indexes)
             names == IndexKeyNames(facetIndex.index)
         IN (names.PK :> Str(buildKey(facetIndex.PK, model, delimiter, Undefined)))
            @@ (names.SK :> Str(buildKey(facetIndex.SK, model, delimiter, NullValue)))
            @@ IndexKeys(Tail(indexes), model, delimiter)

\* this.ttl ? model[this.ttl] : undefined
TtlValue(facet, model) ==
    IF facet.ttl = Undefined THEN Undefined ELSE Field(model, facet.ttl.v)

\* Facet.in(model), the input being valid: the attributes, the keys and
\* `ttl: this.ttl ? model[this.ttl] : undefined`, marshalled
facetIn(facet, model) ==
    LET attributes == model
        facetKeys ==
            ("PK" :> Str(buildKey(facet.PK, model, facet.delimiter, Undefined)))
            @@ ("SK" :> Str(buildKey(facet.SK, model, facet.delimiter, NullValue)))
            @@ IndexKeys(facet.indexes, model, facet.delimiter)
        dynamoDbRecord ==
            ("ttl" :> TtlValue(facet, model)) @@ facetKeys @@ attributes
    IN Marshall(dynamoDbRecord)

\* the attribute names the loop over this.#indexes.keys() deletes
RECURSIVE DeletedInLoop(_, _)
DeletedInLoop(indexes, ttl) ==
    IF indexes = << >> THEN {}
    ELSE {IndexKeyNames(Head(indexes).index).PK,
          IndexKeyNames(Head(indexes).index).SK}
            \cup (IF ttl # Undefined THEN {"ttl"} ELSE {})
            \cup DeletedInLoop(Tail(indexes), ttl)

\* Facet.out(record) with the validator of the tests, `input as Post`
facetOut(facet, record) ==
    LET parsedRecord == Unmarshall(record)
        deleted == {"PK", "SK"} \cup DeletedInLoop(facet.indexes, facet.ttl)
    IN [k \in DOMAIN parsedRecord \ deleted |-> parsedRecord[k]]

FacetArgSets == [via : {"in"}, facet : Facets, model : PostModels]

\* a call facet.in(model)
In ==
    /\ callArgs.via = "in" /\ callOut = << >>
    /\ callOut' = <<facetIn(callArgs.facet, callArgs.model)>>
    /\ UNCHANGED <<op, phase, records, store, store0, batches, result,
                   validateInput, options, callArgs>>
    /\ UNCHANGED <<chunkVars, queryVars>>

\* a call facet.out(item) on the item facet.in returned
Out ==
    /\ callArgs.via = "in" /\ Len(callOut) = 1
    /\ callOut' = Append(callOut, facetOut(callArgs.facet, callOut[1]))
    /\ UNCHANGED <<op, phase, records, store, store0, batches, result,
                   validateInput, options, callArgs>>
    /\ UNCHANGED <<chunkVars, queryVars>>

InitFacet ==
    /\ StoreInit({StoreWith(0)}, {FALSE})
    /\ callArgs \in FacetArgSets
    /\ callOut = << >>
    /\ QueryIdle

NextFacet ==
    \/ In
    \/ Out

SpecFacet == InitFacet /\ [][NextFacet]_vars

\* Math.floor(date.getTime() / 1000) of the dates of the records
EpochSeconds(date) ==
    CASE date.iso = "2021-01-10T03:38:53.601Z" -> 1610249933

\* parseInt(string) of the strings of the records; NaN when no digits lead
parseInt(string) ==
    CASE string = "1700000000" -> Num(1700000000)
      [] string = "abc" -> NaN

\* the local ttlAttribute of Facet.in once its conversion is done
TtlAttribute(facet, model) ==
    LET raw == TtlValue(facet, model)
        converted ==
            IF raw.t = "date" THEN Num(EpochSeconds(raw))
            ELSE IF raw.t = "string" THEN parseInt(raw.v)
                 ELSE raw
    IN IF converted = NaN THEN Undefined ELSE converted

\* ------------------------------------------------------------------------
\* The batch operations under a scheduler that runs every continuation
\* ------------------------------------------------------------------------
\* Every pending step is eventually taken: the store answers every call it
\* was sent (with a response or with an error), every backoff timer fires
\* and every settled fan-in resumes its caller.
\* no record, one record, one full chunk, or one full chunk and one
\* record more
BatchWriteInputs ==
    {MkInput(n, 0, 0) : n \in {0, 1, WriteBatchSize, WriteBatchSize + 1}}

BatchGetInputs ==
    {MkInput(n, 0, 0) : n \in {0, 1, GetBatchSize, GetBatchSize + 1}}

PutBatches == \E rs \in BatchWriteInputs : StartBatchWrite("put", rs)

DeleteBatches == \E rs \in BatchWriteInputs : StartBatchWrite("delete", rs)

GetBatches == \E rs \in BatchGetInputs : StartBatchGet(rs)

NextBatch ==
    \/ PutBatches
    \/ DeleteBatches
    \/ BatchWriteAnswer
    \/ WriteRetry
    \/ BatchWriteReject
    \/ WriteFanIn
    \/ GetBatches
    \/ BatchGetAnswer
    \/ GetRetry
    \/ BatchGetReject
    \/ GetFanIn

SpecBatch == InitWrite /\ [][NextBatch]_vars /\ WF_vars(NextBatch)

\* ------------------------------------------------------------------------
\* putBatch / deleteBatch: the requests built from records with real keys
\* ------------------------------------------------------------------------
MaxBatch == 3

\* a facet with the keys of PostFacet, without index and without ttl
PlainPostFacet ==
    [PK |-> PostPK, SK |-> PostSK, delimiter |-> "_", indexes |-> << >>,
     ttl |-> Undefined]

\* posts whose ids are strings; an id may contain the prefix of the sort key
KeyedPosts ==
    [pageId : {Str("a"), Str("a#POST_b")}, postId : {Str("c"), Str("b#POST_c")},
     postStatus : {Str("queued"), Str("failed")}]

Batches ==
    UNION {[1..n -> KeyedPosts] : n \in 0..MaxBatch}

\* facet.pk(batchItem) and facet.sk(batchItem)
PkOf(facet, model) == buildKey(facet.PK, model, facet.delimiter, Undefined)

SkOf(facet, model) == buildKey(facet.SK, model, facet.delimiter, NullValue)

\* const key = facet.pk(batchItem) + facet.sk(batchItem)
RequestKey(facet, batchItem) == PkOf(facet, batchItem) \o SkOf(facet, batchItem)

\* the write request of one record: {PutRequest: {Item: facet.in(batchItem)}}
\* or {DeleteRequest: {Key: {PK: {S: pk}, SK: {S: sk}}}}
WriteRequest(kind, facet, batchItem) ==
    IF kind = "put"
    THEN [PutRequest |-> [Item |-> facetIn(facet, batchItem)]]
    ELSE [DeleteRequest |->
            [Key |-> [PK |-> [S |-> PkOf(facet, batchItem)],
                      SK |-> [S |-> SkOf(facet, batchItem)]]]]

\* the loop `for (const batchItem of batch) writeRequests[key] = ...`
RECURSIVE writeRequests(_, _, _)
writeRequests(kind, facet, batch) ==
    IF batch = << >> THEN << >>
    ELSE LET batchItem == batch[Len(batch)]
         IN Upsert(writeRequests(kind, facet, SubSeq(batch, 1, Len(batch) - 1)),
                   RequestKey(facet, batchItem),
                   WriteRequest(kind, facet, batchItem))

RequestArgSets ==
    [via : {"putBatch", "deleteBatch"}, facet : {PlainPostFacet}, batch : Batches]

\* putBatch / deleteBatch up to the first store call: the RequestItems of
\* the call are Object.values(writeRequests)
BuildRequests ==
    /\ callArgs.via \in {"putBatch", "deleteBatch"} /\ callOut = << >>
    /\ callOut' = <<Values(writeRequests(
                        IF callArgs.via = "putBatch" THEN "put" ELSE "delete",
                        callArgs.facet, callArgs.batch))>>
    /\ UNCHANGED <<op, phase, records, store, store0, batches, result,
                   validateInput, options, callArgs>>
    /\ UNCHANGED <<chunkVars, queryVars>>

InitRequests ==
    /\ StoreInit({StoreWith(0)}, {FALSE})
    /\ callArgs \in RequestArgSets
    /\ callOut = << >>
    /\ QueryIdle

NextRequests == BuildRequests

SpecRequests == InitRequests /\ [][NextRequests]_vars

\* ------------------------------------------------------------------------
\* Facet.addIndex
\* ------------------------------------------------------------------------
\* the methods of the Facet class, found on the prototype
FacetMethods ==
    {"pk", "sk", "in", "out", "get", "delete", "put", "query", "addIndex"}

\* the properties the constructor assigns on the instance
ConstructedProperties ==
    [p \in {"delimiter", "ttl", "connection"} |-> [member |-> "field"]]

\* new FacetIndex(index, this, PK, SK)
FacetIndex(opts) == [index |-> opts.index, PK |-> opts.PK, SK |-> opts.SK]

\* this.#indexes.set(index, facetIndex): a Map keeps the place of a key it
\* already has
MapSet(indexes, facetIndex) ==
    IF \E i \in 1..Len(indexes) : indexes[i].index = facetIndex.index
    THEN [i \in 1..Len(indexes) |->
            IF indexes[i].index = facetIndex.index THEN facetIndex ELSE indexes[i]]
    ELSE Append(indexes, facetIndex)

\* Object.prototype.hasOwnProperty.call(this, alias)
HasOwnProperty(own, alias) == alias \in DOMAIN own

AliasExists(alias) ==
    "The index alias " \o alias
        \o " already exists on this Facet. Pick another index to use for this alias."

\* addIndex({PK, SK, index, alias}) on the facet: the facet as the call
\* leaves it, and the error it threw if it threw
addIndex(facet, opts) ==
    LET facetIndex == FacetIndex(opts)
        registered == [facet EXCEPT !.indexes = MapSet(@, facetIndex),
                                    !.own = ObjectAssign(@, opts.index :> facetIndex)]
    IN IF opts.alias # Undefined /\ opts.alias.v # ""
       THEN IF HasOwnProperty(registered.own, opts.alias.v)
            THEN [facet |-> registered, error |-> AliasExists(opts.alias.v)]
            ELSE [facet |-> [registered EXCEPT
                                !.own = ObjectAssign(@, opts.alias.v :> facetIndex)]]
       ELSE [facet |-> registered]

\* a facet as constructed, and PostFacet after its first addIndex
NewFacet ==
    [PK |-> PostPK, SK |-> PostSK, delimiter |-> "_", indexes |-> << >>,
     ttl |-> Undefined, own |-> ConstructedProperties]

FacetWithIndex ==
    addIndex(NewFacet, [index |-> "GSI1", PK |-> GSI1.PK, SK |-> GSI1.SK,
                        alias |-> Str("GSIStatusSendAt")]).facet

Aliases ==
    {Undefined, Str(""), Str("GSIPagePostStatus"), Str("put"), Str("get"),
     Str("query"), Str("delete"), Str("delimiter"), Str("connection"),
     Str("GSI1"), Str("GSI2"), Str("GSIStatusSendAt")}

AddIndexArgSets ==
    [via : {"addIndex"}, facet : {NewFacet, FacetWithIndex},
     options : {[index |-> g.index, PK |-> g.PK, SK |-> g.SK, alias |-> a] :
                    g \in {GSI1, GSI2}, a \in Aliases},
     model : {m \in PostModels : "deleteAt" \notin DOMAIN m}]

\* a call facet.addIndex(options)
AddIndex ==
    /\ callArgs.via = "addIndex" /\ callOut = << >>
    /\ callOut' = <<addIndex(callArgs.facet, callArgs.options)>>
    /\ UNCHANGED <<op, phase, records, store, store0, batches, result,
                   validateInput, options, callArgs>>
    /\ UNCHANGED <<chunkVars, queryVars>>

\* facet.in(model) on the facet that addIndex left
InAfterAddIndex ==
    /\ callArgs.via = "addIndex" /\ Len(callOut) = 1
    /\ callOut' = Append(callOut, facetIn(callOut[1].facet, callArgs.model))
    /\ UNCHANGED <<op, phase, records, store, store0, batches, result,
                   validateInput, options, callArgs>>
    /\ UNCHANGED <<chunkVars, queryVars>>

\* facet.out(item) on the item facet.in returned
OutAfterAddIndex ==
    /\ callArgs.via = "addIndex" /\ Len(callOut) = 2
    /\ callOut' = Append(callOut, facetOut(callOut[1].facet, callOut[2]))
    /\ UNCHANGED <<op, phase, records, store, store0, batches, result,
                   validateInput, options, callArgs>>
    /\ UNCHANGED <<chunkVars, queryVars>>

InitAddIndex ==
    /\ StoreInit({StoreWith(0)}, {FALSE})
    /\ callArgs \in AddIndexArgSets
    /\ callOut = << >>
    /\ QueryIdle

NextAddIndex ==
    \/ AddIndex
    \/ InAfterAddIndex
    \/ OutAfterAddIndex

SpecAddIndex == InitAddIndex /\ [][NextAddIndex]_vars

\* ------------------------------------------------------------------------
\* the fluent condition builder: Condition(key)...and(...)...build(prefix)
\* ------------------------------------------------------------------------
MaxLinks == 2

\* new ConditionComparison({condition, key, value}), new ConditionExists({key})
ConditionComparison(operation, key, value) ==
    [type |-> "comparison", key |-> key, condition |-> operation, value |-> value]

ConditionExists(key) == [type |-> "exists", key |-> key]

\* condition.build(prefix) of a ConditionComparison or a ConditionExists
buildLeaf(condition, prefix) ==
    LET attributeNameKey == "#" \o Join(Append(prefix, condition.key), "_")
        attributeValueKey == ":" \o Join(Append(prefix, condition.key), "_")
    IN IF condition.type = "comparison"
       THEN [attributeNames |-> attributeNameKey :> condition.key,
             attributeValues |-> attributeValueKey :> AttributeValue(condition.value),
             statement |-> attributeNameKey \o " " \o condition.condition
                                \o " " \o attributeValueKey]
       ELSE [attributeNames |-> attributeNameKey :> condition.key,
             attributeValues |-> EmptyObject,
             statement |-> "attribute_exists (" \o attributeNameKey \o ")"]

IsConditionGroup(keyOrGroup) == "conditions" \in DOMAIN keyOrGroup

\* new ConditionGroup(conditionOrGroup, not)
ConditionGroup(conditionOrGroup, not) ==
    [conditions |-> <<[condition |-> conditionOrGroup, not |-> not]>>]

\* group[addToConditionGroup](logicalEvaluation, conditionOrGroup, not)
addToConditionGroup(group, logicalEvaluation, conditionOrGroup, not) ==
    [conditions |-> Append(group.conditions,
        [logicalEvaluation |-> logicalEvaluation,
         condition |-> conditionOrGroup, not |-> not])]

\* new ConditionBuilder(key) and, through NextCondition(key, conditionGroup,
\* logicalEvaluation), new ConditionBuilder(key, {conditionGroup,
\* logicalEvaluation})
ConditionBuilder(key) == [key |-> key, invert |-> FALSE]

ConditionBuilderIn(key, conditionGroup, logicalEvaluation) ==
    [key |-> key, invert |-> FALSE,
     existingGroup |-> [conditionGroup |-> conditionGroup,
                        logicalEvaluation |-> logicalEvaluation]]

\* ConditionBuilder.not()
not(builder) == [builder EXCEPT !.invert = ~@]

\* ConditionBuilder.addCondition(condition)
addCondition(builder, condition) ==
    IF "existingGroup" \in DOMAIN builder
    THEN addToConditionGroup(builder.existingGroup.conditionGroup,
                             builder.existingGroup.logicalEvaluation,
                             condition, builder.invert)
    ELSE ConditionGroup(condition, builder.invert)

\* the operator methods of the builder: equals, greaterThanOrEquals, exists
operate(builder, operator) ==
    CASE operator.m = "equals" ->
            addCondition(builder, ConditionComparison("=", builder.key, operator.value))
      [] operator.m = "greaterThanOrEquals" ->
            addCondition(builder, ConditionComparison(">=", builder.key, operator.value))
      [] operator.m = "exists" ->
            addCondition(builder, ConditionExists(builder.key))

\* ConditionGroup.next(keyOrGroup, logicalEvaluation, not)
next(group, keyOrGroup, logicalEvaluation, negate) ==
    IF IsConditionGroup(keyOrGroup)
    THEN addToConditionGroup(group, logicalEvaluation, keyOrGroup, negate)
    ELSE ConditionBuilderIn(keyOrGroup.v, group, logicalEvaluation)

and(group, keyOrGroup) == next(group, keyOrGroup, "AND", FALSE)
andNot(group, keyOrGroup) == next(group, keyOrGroup, "AND", TRUE)
or(group, keyOrGroup) == next(group, keyOrGroup, "OR", FALSE)
orNot(group, keyOrGroup) == next(group, keyOrGroup, "OR", FALSE)

\* ConditionGroup.build(prefix); conditionStatements is the array the
\* statement is joined from
RECURSIVE buildGroup(_, _)
buildGroup(group, prefix) ==
    LET RECURSIVE Loop(_, _)
        Loop(statementCounter, acc) ==
            IF statementCounter >= Len(group.conditions) THEN acc
            ELSE LET condition == group.conditions[statementCounter + 1]
                     inner == Append(prefix, NumberToString(statementCounter, 16))
                     builtCondition ==
                        IF IsConditionGroup(condition.condition)
                        THEN buildGroup(condition.condition, inner)
                        ELSE buildLeaf(condition.condition, inner)
                     logical ==
                        IF "logicalEvaluation" \in DOMAIN condition
                        THEN <<condition.logicalEvaluation>> ELSE << >>
                     negation == IF condition.not THEN <<"NOT">> ELSE << >>
                     body ==
                        IF IsConditionGroup(condition.condition)
                        THEN "(" \o builtCondition.statement \o ")"
                        ELSE builtCondition.statement
                 IN Loop(statementCounter + 1,
                        [attributeNames |->
                            ObjectAssign(acc.attributeNames, builtCondition.attributeNames),
                         attributeValues |->
                            ObjectAssign(acc.attributeValues, builtCondition.attributeValues),
                         conditionStatements |->
                            acc.conditionStatements \o logical \o negation \o <<body>>])
        done == Loop(0, [attributeNames |-> EmptyObject, attributeValues |-> EmptyObject,
                         conditionStatements |-> << >>])
    IN [attributeNames |-> done.attributeNames,
        attributeValues |-> done.attributeValues,
        conditionStatements |-> done.conditionStatements,
        statement |-> Join(done.conditionStatements, " ")]

\* the groups handed to and / andNot / or / orNot:
\* Condition('status').equals('active') and Condition('age').not().exists()
StatusActive ==
    operate(ConditionBuilder("status"), [m |-> "equals", value |-> Str("active")])

AgeMissing == operate(not(ConditionBuilder("age")), [m |-> "exists"])

\* one link of a chain: a key followed by not() or not and an operator
\* call, or a condition group
KeyLinks(methods, key, operators) ==
    [method : methods, key : {Str(key)}, invert : BOOLEAN, operator : operators]

GroupLinks(methods) == [method : methods, group : {StatusActive, AgeMissing}]

FirstLinks ==
    KeyLinks({"Condition"}, "name",
             {[m |-> "equals", value |-> Str("joe")], [m |-> "exists"]})

Connectives == {"and", "andNot", "or", "orNot"}

LaterLinks ==
    KeyLinks(Connectives, "age",
             {[m |-> "greaterThanOrEquals", value |-> Num(27)], [m |-> "exists"]})
        \cup GroupLinks(Connectives)

Chains ==
    UNION {{<<head>> \o later : head \in FirstLinks, later \in [1..n -> LaterLinks]} :
                n \in 0..MaxLinks}

BuilderArgSets == [via : {"Condition"}, links : Chains, prefix : {<<"con">>}]

\* where the chain stands: the builder or group the last call returned, and
\* the link the next call belongs to
Current == callOut[1]

LinkAt(i) == callArgs.links[i]

ConditionsSoFar(groupOrBuilder) ==
    IF IsConditionGroup(groupOrBuilder) THEN Len(groupOrBuilder.conditions)
    ELSE IF "existingGroup" \in DOMAIN groupOrBuilder
         THEN Len(groupOrBuilder.existingGroup.conditionGroup.conditions)
         ELSE 0

Chaining ==
    /\ callArgs.via = "Condition" /\ Len(callOut) = 1
    /\ ConditionsSoFar(Current) < Len(callArgs.links)

Step(after) ==
    /\ callOut' = <<after>>
    /\ UNCHANGED <<op, phase, records, store, store0, batches, result,
                   validateInput, options, callArgs>>
    /\ UNCHANGED <<chunkVars, queryVars>>

\* Condition(key)
CallCondition ==
    /\ callArgs.via = "Condition" /\ callOut = << >>
    /\ Step(ConditionBuilder(LinkAt(1).key.v))

\* .not()
CallNot ==
    /\ Chaining /\ ~IsConditionGroup(Current)
    /\ LinkAt(ConditionsSoFar(Current) + 1).invert /\ ~Current.invert
    /\ Step(not(Current))

\* .equals(value), .greaterThanOrEquals(value), .exists()
CallOperator ==
    /\ Chaining /\ ~IsConditionGroup(Current)
    /\ LinkAt(ConditionsSoFar(Current) + 1).invert = Current.invert
    /\ Step(operate(Current, LinkAt(ConditionsSoFar(Current) + 1).operator))

KeyOrGroup(link) == IF "group" \in DOMAIN link THEN link.group ELSE link.key

NextIs(method) ==
    /\ Chaining /\ IsConditionGroup(Current)
    /\ LinkAt(ConditionsSoFar(Current) + 1).method = method

\* .and(keyOrGroup)
CallAnd ==
    /\ NextIs("and")
    /\ Step(and(Current, KeyOrGroup(LinkAt(ConditionsSoFar(Current) + 1))))

\* .andNot(keyOrGroup)
CallAndNot ==
    /\ NextIs("andNot")
    /\ Step(andNot(Current, KeyOrGroup(LinkAt(ConditionsSoFar(Current) + 1))))

\* .or(keyOrGroup)
CallOr ==
    /\ NextIs("or")
    /\ Step(or(Current, KeyOrGroup(LinkAt(ConditionsSoFar(Current) + 1))))

\* .orNot(keyOrGroup)
CallOrNot ==
    /\ NextIs("orNot")
    /\ Step(orNot(Current, KeyOrGroup(LinkAt(ConditionsSoFar(Current) + 1))))

\* .build(prefix) once the chain is complete
CallBuild ==
    /\ callArgs.via = "Condition" /\ Len(callOut) = 1
    /\ IsConditionGroup(Current)
    /\ Len(Current.conditions) = Len(callArgs.links)
    /\ callOut' = Append(callOut, buildGroup(Current, callArgs.prefix))
    /\ UNCHANGED <<op, phase, records, store, store0, batches, result,
                   validateInput, options, callArgs>>
    /\ UNCHANGED <<chunkVars, queryVars>>

InitBuilder ==
    /\ StoreInit({StoreWith(0)}, {FALSE})
    /\ callArgs \in BuilderArgSets
    /\ callOut = << >>
    /\ QueryIdle

NextBuilder ==
    \/ CallCondition
    \/ CallNot
    \/ CallOperator
    \/ CallAnd
    \/ CallAndNot
    \/ CallOr
    \/ CallOrNot
    \/ CallBuild

SpecBuilder == InitBuilder /\ [][NextBuilder]_vars

\* ------------------------------------------------------------------------
\* Properties of the batch put / delete
\* ------------------------------------------------------------------------
Succeeded == IF op = "put" THEN result.put ELSE result.deleted

WriteReturned == phase = "returned" /\ IsWrite

\* the record reported for the write request `req` of chunk c
RecordOf(c, req) ==
    CHOOSE r \in Lookup(BuildItemsByKey(op, batches[c]), req.key) : TRUE

FailedRecords == {result.failed[j].record : j \in 1..Len(result.failed)}

\* C1: when a batch put or delete returns, the succeeded list and the
\* failed list together have as many entries as the input has records
C1_BatchCompleteness ==
    WriteReturned => Len(Succeeded) + Len(result.failed) = Len(records)

\* C2: in a batch put, the entries left unprocessed by the first attempt
\* and accepted by the one retry are reported in `put`, not in `failed`,
\* after exactly one retry call; and every record the store accepted in
\* some attempt is reported in `put`
C2_RetrySuccessIsSuccess ==
    (phase = "returned" /\ op = "put") =>
        \A c \in DOMAIN pc :
            pc[c] = "done" =>
                /\ (firstUnprocessed[c] # << >> /\ retries[c] = 1
                        /\ unprocessed[c] = << >>) =>
                       /\ calls[c] = 2
                       /\ \A j \in 1..Len(firstUnprocessed[c]) :
                            LET r == RecordOf(c, firstUnprocessed[c][j])
                            IN r \in Range(result.put) /\ r \notin FailedRecords
                /\ \A r \in Range(batches[c]) :
                       (r.key \in accepted[c]
                            /\ r \in Range(Values(BuildItemsByKey(op, batches[c])))) =>
                           r \in Range(result.put) /\ r \notin FailedRecords

\* the entries of chunk c the store still reported unprocessed after the
\* last retry
Exhausted(c) ==
    IF pc[c] = "done" /\ retries[c] = MaxWriteRetries THEN unprocessed[c] ELSE << >>

ExhaustionReported(c) ==
    \A j \in 1..Len(Exhausted(c)) :
        LET r == RecordOf(c, Exhausted(c)[j])
        IN /\ [record |-> r, error |-> NotProcessed] \in Range(result.failed)
           /\ r \notin Range(Succeeded)

\* C3: a batch put never throws, and a record whose put request is still
\* unprocessed after the 5th retry is in `failed` with the error 'Item was
\* not processed' and not in `put`
C3_PutExhaustionFails ==
    /\ op = "put" => phase # "thrown"
    /\ (phase = "returned" /\ op = "put") =>
           \A c \in DOMAIN pc : ExhaustionReported(c)

C3_Witness ==
    /\ phase = "returned" /\ op = "put"
    /\ \E c \in DOMAIN pc : Len(Exhausted(c)) > 0 /\ calls[c] = 1 + MaxWriteRetries

\* C4: a batch delete never throws, a record whose delete request is
\* still unprocessed after the 5th retry is in `failed` with the error
\* 'Item was not processed' and not in `deleted`, and every record in
\* `deleted` was accepted by the store
C4_DeleteExhaustionFails ==
    /\ op = "delete" => phase # "thrown"
    /\ (phase = "returned" /\ op = "delete") =>
           /\ \A c \in DOMAIN pc : ExhaustionReported(c)
           /\ \A c \in DOMAIN pc :
                  \A r \in Range(batches[c]) :
                      r \in Range(result.deleted) => r.key \in accepted[c]

\* what chunk c reports, as a function of the chunk and the store's
\* answers to the chunk alone
OwnOutcome(c) ==
    IF pc[c] = "rejected"
    THEN [ok |-> << >>,
          failed |-> [j \in 1..Len(batches[c]) |->
                         [record |-> batches[c][j], error |-> reason[c]]]]
    ELSE BatchResponse(firstUnprocessed[c], BuildItemsByKey(op, batches[c]))

ChunkIds(c) == {batches[c][j].id : j \in 1..Len(batches[c])}

\* C5: a batch put / delete resolves whichever chunks reject; the records
\* of a rejected chunk are all in `failed` with the rejection reason, and
\* what is reported for each chunk is decided by that chunk alone
C5_ChunkIsolation ==
    /\ IsWrite => phase # "thrown"
    /\ WriteReturned =>
           \A c \in DOMAIN pc :
               /\ SelectSeq(result.failed, LAMBDA e : e.record.id \in ChunkIds(c))
                      = OwnOutcome(c).failed
               /\ SelectSeq(Succeeded, LAMBDA r : r.id \in ChunkIds(c))
                      = OwnOutcome(c).ok

C5_Witness ==
    /\ WriteReturned
    /\ Len(batches) = 2
    /\ pc[1] = "rejected" /\ reason[1] = TransportError /\ calls[1] > 1
    /\ pc[2] = "done" /\ Len(chunkOut[2].ok) > 0

\* ------------------------------------------------------------------------
\* Properties of Facet.get
\* ------------------------------------------------------------------------
\* the keys of chunk c still unprocessed when getBatch gave up
ExhaustedKeys(c) ==
    IF pc[c] = "done" THEN RequestKeys(unprocessed[c]) ELSE {}

\* getBatchItems returns the records only: no key is reported as failed
ReportedFailedKeys == {}

\* C6: a batch get does not reject as a whole when a chunk's store call
\* rejects, and it reports the keys left unprocessed after the last retry
\* as failed
C6_BatchGetNeverFailsAtomically ==
    op = "getBatch" =>
        /\ phase # "thrown"
        /\ phase = "returned" =>
               \A c \in DOMAIN pc : ExhaustedKeys(c) \subseteq ReportedFailedKeys

\* C8: a single-item get does not throw: a rejected store call or a
\* rejected validation is returned as a failure result
C8_GetSingleNeverThrows ==
    op = "getSingle" => phase # "thrown"

\* the stored records of the keys named by the queries
StoredFor(queries) ==
    {FacetOut(it) : it \in {x \in store : \E j \in 1..Len(queries) :
                                              x.PK = KeyOf(queries[j])}}

NothingExhausted == \A c \in DOMAIN pc : ExhaustedKeys(c) = {}

\* C9: a single-item get returns null when no item is stored under the
\* key and the stored record otherwise; a batch get on which the store
\* gave up no key returns exactly one record per key that is stored,
\* omitting the others, and for no key it returns [] without a store call
C9_MissingItemsOnGet ==
    /\ (op = "getSingle" /\ phase = "returned") =>
           IF StoredFor(records) = {} THEN result = Null
           ELSE result \in StoredFor(records)
    /\ (op = "getBatch" /\ phase = "returned" /\ NothingExhausted) =>
           /\ Range(result.items) = StoredFor(records)
           /\ Len(result.items) = Cardinality(StoredFor(records))
           /\ Len(records) = 0 => (result.items = << >> /\ DOMAIN calls = {})

C9_Witness ==
    /\ op = "getBatch" /\ phase = "returned" /\ NothingExhausted
    /\ Len(batches) = 2
    /\ \E c \in DOMAIN pc : calls[c] > 1
    /\ Len(result.items) > 0 /\ Len(result.items) < Len(records)

\* ------------------------------------------------------------------------
\* Properties of the single-item put and delete
\* ------------------------------------------------------------------------
\* the stages the claim names: building the item, compiling the condition,
\* calling the store
NamedStages == {"build", "condition", "store"}

FailureCarries(r, e) ==
    IF op = "putSingle"
    THEN result = [record |-> r, wasSuccessful |-> FALSE, error |-> e]
    ELSE /\ result.hasFailures
         /\ result.failed = <<[error |-> e, record |-> r]>>
         /\ result.deleted = << >>

\* C7: a single-item put or delete never throws; an error raised while
\* building the item, compiling the condition or calling the store (a
\* failed condition included) comes back as a failure result with the
\* original record and the error, and the table is as it was
C7_SingleWriteNeverThrows ==
    IsSingleWrite =>
        /\ phase # "thrown"
        /\ (phase = "returned" /\ pc[1] \in NamedStages) =>
               /\ reason[1] # NoError
               /\ FailureCarries(records[1], reason[1])
               /\ store = store0
        /\ (phase = "returned" /\ options = "not_exists"
                /\ StoredItems(store0, KeyOf(records[1])) # {}) =>
               /\ pc[1] \in NamedStages
               /\ store = store0

C7_Witness ==
    /\ op = "putSingle" /\ phase = "returned"
    /\ options = "not_exists"
    /\ StoredItems(store0, KeyOf(records[1])) # {}
    /\ result = [record |-> records[1], wasSuccessful |-> FALSE,
                 error |-> ConditionalCheckFailed]

\* ------------------------------------------------------------------------
\* Properties of buildKey
\* ------------------------------------------------------------------------
IsKeyCall == callArgs.via \in {"buildKey", "pk", "sk"}

\* the key with bucket 0 as its shard segment
KeyWithShardZero(keyConfig, model, delimiter) ==
    Join(<<keyConfig.prefix,
           PadStart("0", Len(NumberToString(keyConfig.shard.count - 1, 16)))>>
            \o FieldSegments(keyConfig.keys, model),
         delimiter)

\* C10: with a sharded key configuration and the explicit shard 0, the key
\* carries the zero-padded hex string of bucket 0 as its shard segment,
\* whatever the record's shard fields are
C10_ExplicitShardZero ==
    (callOut # << >> /\ IsKeyCall /\ HasShard(callArgs.keyConfig)
        /\ callArgs.shard = Num(0)) =>
        callOut[1] = KeyWithShardZero(callArgs.keyConfig, callArgs.model,
                                     callArgs.delimiter)

\* ------------------------------------------------------------------------
\* Properties of crcShard
\* ------------------------------------------------------------------------
IsShardCall == callArgs.via = "crcShard" /\ callOut # << >>

\* the count fits a signed 32-bit integer: 1 <= trunc(n) < 2^31
FitsInt32(n) == n.kind = "finite" /\ n.wraps = 0 /\ n.rem >= 1

\* x >>> 1 of the checksums: the values a shard can be computed from
HalvedChecksums == {UnsignedShiftRight1(c) : c \in Checksums}

\* the hex strings of `width` digits of the values in [0, m), m fitting 32
\* bits; for an m too large to list them all, of the values in [0, m) that
\* are a halved checksum or differ from one by m
ShardNames(m, width) ==
    {PadStart(NumberToString(v, 16), width) :
        v \in IF m <= 4097 THEN 0..(m - 1)
              ELSE {h \in HalvedChecksums \cup {g - m : g \in HalvedChecksums} :
                        0 <= h /\ h < m}}

\* len(hex(m - 1)) for m = trunc(n) of a finite n >= 2^31: 8 digits up to
\* 2^32, more beyond
WideEnough(n, str) ==
    IF n.wraps = 1 /\ n.rem <= 0 THEN Len(str) = 8 ELSE Len(str) >= 9

\* C11: crcShard(s, n) is the hex string of len(hex(m - 1)) digits of a
\* value in [0, m), m being n truncated to an integer and clamped to at
\* least 1; for n < 1 it is "0"
C11_ShardBoundedness ==
    (IsShardCall /\ callArgs.shardCount.kind = "finite") =>
        LET n == callArgs.shardCount
        IN IF LessThanOne(n) THEN callOut[1] = "0"
           ELSE IF FitsInt32(n)
                THEN callOut[1] \in
                        ShardNames(n.rem, Len(NumberToString(n.rem - 1, 16)))
                ELSE /\ WideEnough(n, callOut[1])
                     /\ callOut[1] \in
                            {PadStart(NumberToString(h, 16), Len(callOut[1])) :
                                h \in HalvedChecksums}

\* the same property for the counts that fit a signed 32-bit integer
C11_ShardBoundednessInt32 ==
    (IsShardCall /\ callArgs.shardCount.kind = "finite"
        /\ (LessThanOne(callArgs.shardCount) \/ FitsInt32(callArgs.shardCount))) =>
        C11_ShardBoundedness

C11_Witness ==
    /\ IsShardCall
    /\ callArgs.shardCount = Whole(257) /\ callArgs.crc = -1
    /\ callOut = <<"0fe">>

\* ------------------------------------------------------------------------
\* Key determinism
\* ------------------------------------------------------------------------
\* the fields a key configuration names: its key fields and shard fields
NamedFields(keyConfig) == Range(keyConfig.keys) \cup Range(keyConfig.shard.keys)

AgreeOn(fields, r1, r2) == \A f \in fields : Field(r1, f) = Field(r2, f)

\* the key the call of callArgs returns for the record r
KeyFor(r) ==
    buildKey(callArgs.keyConfig, r, callArgs.delimiter,
             IF callArgs.via = "sk" /\ callArgs.shard.t = "undefined"
             THEN NullValue ELSE callArgs.shard)

\* C12: two records that agree on every field the key configuration names
\* (key fields and shard fields) yield the same key; fields the
\* configuration does not name never influence it
C12_KeyDeterminism ==
    (IsKeyCall /\ callOut # << >>) =>
        \A r2 \in KeyModels :
            AgreeOn(NamedFields(callArgs.keyConfig), callArgs.model, r2) =>
                KeyFor(r2) = callOut[1]

C12_Witness ==
    /\ IsKeyCall /\ callOut # << >>
    /\ callArgs.keyConfig.prefix = "#STATUS"
    /\ callArgs.shard = Undefined
    /\ \E r2 \in KeyModels :
        /\ AgreeOn(NamedFields(callArgs.keyConfig), callArgs.model, r2)
        /\ r2.pageId # callArgs.model.pageId

\* ------------------------------------------------------------------------
\* Properties of buildConditionExpression
\* ------------------------------------------------------------------------
IsConditionCall == callArgs.via = "buildConditionExpression" /\ callOut # << >>

\* the leaves of an expression, as a sequence from left to right
RECURSIVE LeavesOf(_)
LeavesOf(expression) ==
    IF ~IsArray(expression) THEN LeavesOf(expression.NOT)
    ELSE IF "first" \in DOMAIN expression
         THEN LeavesOf(expression.first) \o LeavesOf(expression.second)
         ELSE <<expression>>

\* the number of value operands of a leaf
ValueOperands(leaf) ==
    CASE leaf.e1 \in Comparators \cup {"begins_with"} -> 1
      [] leaf.e1 = "between" -> 2
      [] leaf.e1 \in {"exists", "not_exists"} -> 0

RECURSIVE SumValueOperands(_)
SumValueOperands(leaves) ==
    IF leaves = << >> THEN 0
    ELSE ValueOperands(Head(leaves)) + SumValueOperands(Tail(leaves))

OnlySupportedLeaves(expression) ==
    \A i \in 1..Len(LeavesOf(expression)) :
        LeavesOf(expression)[i] \in SupportedLeaves

\* C13: the compiled names map has exactly one entry per leaf and the
\* values map exactly one entry per value operand (1 for a comparison or
\* begins_with, 2 for between, 0 for exists / not_exists), so no two leaves
\* share a placeholder and merging the children's maps overwrites nothing
C13_PlaceholderUniqueness ==
    (IsConditionCall /\ OnlySupportedLeaves(callArgs.expression)) =>
        LET leaves == LeavesOf(callArgs.expression)
            compiled == callOut[1]
        IN /\ ~Throws(compiled)
           /\ Cardinality(DOMAIN compiled.names) = Len(leaves)
           /\ Cardinality(DOMAIN compiled.values) = SumValueOperands(leaves)
           /\ {compiled.names[k] : k \in DOMAIN compiled.names}
                = {leaves[i].e0 : i \in 1..Len(leaves)}

C13_Witness ==
    /\ IsConditionCall
    /\ callArgs.expression =
            Logic(Logic(Leaf("age", ">=", <<Num(21)>>), "AND",
                        Leaf("age", ">=", <<Num(21)>>)),
                  "OR",
                  Not(Leaf("age", "between", <<Num(30), Num(39)>>)))
    /\ DOMAIN callOut[1].names = {"#C_0_0_0", "#C_0_1_0", "#C_1_0_0"}
    /\ DOMAIN callOut[1].values =
            {":C_0_0_0", ":C_0_1_0", ":C_1_0_0_L", ":C_1_0_0_R"}

\* C14: a leaf [field, 'contains', v] compiles to `contains (#p, :p)` with
\* one name and one value placeholder, and a leaf [field, 'size', cmp, n]
\* to a size comparison with one name and one value placeholder; neither
\* is rejected as an unsupported operator
C14_ContainsAndSizeSupported ==
    /\ (IsConditionCall
            /\ callArgs.expression = Leaf("favorites", "contains", <<Str("apples")>>)) =>
          callOut[1] = [expression |-> "contains (#C_0, :C_0)",
                        names |-> "#C_0" :> "favorites",
                        values |-> ":C_0" :> [S |-> "apples"]]
    /\ (IsConditionCall
            /\ callArgs.expression = Leaf("name", "size", <<Str("<="), Num(10)>>)) =>
          /\ ~Throws(callOut[1])
          /\ callOut[1].names = "#C_0" :> "name"
          /\ callOut[1].values = ":C_0" :> [N |-> "10"]

\* the operator tokens of the leaves of an expression that are no
\* supported leaves
OffendingTokens(expression) ==
    {LeavesOf(expression)[i].e1 :
        i \in {j \in 1..Len(LeavesOf(expression)) :
                    LeavesOf(expression)[j] \in OtherLeaves}}

Listed == list(WithCursor(queryOptions, Undefined))

\* C16: first(options) returns the first record list(options) returns, and
\* null exactly when list(options) returns no records
C16_FirstIsHeadOfList ==
    (op = "first" /\ phase = "returned" /\ ~Throws(Listed)) =>
        firstOut[1] = IF Listed.records = << >> THEN Null
                      ELSE Listed.records[1]


\* the records of the pages so far, in the order they were returned
RECURSIVE Flatten(_)
Flatten(results) ==
    IF results = << >> THEN << >>
    ELSE Head(results).records \o Flatten(Tail(results))

\* the records of the partition that match the options, by sort key in
\* the direction of the scan
Matching ==
    LET ordered == IF queryOptions.scanForward = Bool(FALSE)
                   THEN Reverse(partition) ELSE partition
    IN IF queryOptions.filter # Undefined THEN Filtered(ordered) ELSE ordered

IsPrefix(s, t) == Len(s) <= Len(t) /\ s = SubSeq(t, 1, Len(s))

\* the cursor the caller passed to the call that returned page i
CursorInto(i) == IF i = 1 THEN Undefined ELSE pages[i - 1].cursor

\* what the store answered to the call that returned page i
StoreAnswer(i) == StoreQuery(QueryInput(WithCursor(queryOptions, CursorInto(i))))

PagingDone == pages # << >> /\ "cursor" \notin DOMAIN pages[Len(pages)]

\* C19: repeated list() calls that pass the cursor of the page before
\* return every matching record exactly once, in sort-key order; the call
\* without a cursor starts at the beginning; each call issues exactly one
\* store query; a result carries a cursor exactly when the store returned
\* a resume key for it.
C19_PaginationByCursor ==
    (op = "list" /\ phase = "returned") =>
        /\ queryCalls = Len(pages)
        /\ IsPrefix(Flatten(pages), Matching)
        /\ IsPrefix(pages[1].records, Matching)
        /\ PagingDone => Flatten(pages) = Matching
        /\ \A i \in 1..Len(pages) :
            /\ "cursor" \in DOMAIN pages[i]
                    <=> "LastEvaluatedKey" \in DOMAIN StoreAnswer(i)
            /\ "cursor" \in DOMAIN pages[i]
                    => decodeCursor(pages[i].cursor) = StoreAnswer(i).LastEvaluatedKey

\* a filtered listing from the end, finished after three pages, one of
\* them empty with a cursor, that returned two records
C19_Witness ==
    /\ op = "list" /\ phase = "returned" /\ PagingDone
    /\ Len(pages) >= 3
    /\ queryOptions.filter # Undefined
    /\ queryOptions.scanForward = Bool(FALSE)
    /\ \E i \in 1..Len(pages) - 1 : pages[i].records = << >>
    /\ Len(Flatten(pages)) = 2

\* ------------------------------------------------------------------------
\* Properties of Facet.in and Facet.out
\* ------------------------------------------------------------------------
IsFacetCall == "via" \in DOMAIN callArgs /\ callArgs.via = "in"

\* the values the attribute codec reads back as they were written
Lossless(model) == \A k \in DOMAIN model : model[k].t \in {"string", "number", "boolean"}

ReservedAttributes == {"PK", "SK", "GSI1PK", "GSI1SK", "GSI2PK", "GSI2SK", "ttl"}

\* C17: for every facet configuration and every record the codec reads back
\* unchanged, out(in(r)) is r, with none of the reserved attributes PK, SK,
\* GSInPK, GSInSK and ttl left in it.
C17_RoundTrip ==
    (IsFacetCall /\ Len(callOut) = 2 /\ Lossless(callArgs.model))
        => /\ callOut[2] = callArgs.model
           /\ DOMAIN callOut[2] \cap ReservedAttributes = {}

\* C17 on the facets that have at least one secondary index
C17_RoundTripIndexed ==
    (IsFacetCall /\ Len(callOut) = 2 /\ Lossless(callArgs.model)
        /\ callArgs.facet.indexes # << >>)
        => /\ callOut[2] = callArgs.model
           /\ DOMAIN callOut[2] \cap ReservedAttributes = {}

\* C18: with a TTL field configured, the ttl attribute Facet.in writes is the
\* epoch-seconds number of the field (floor(ms / 1000) of a Date, the parsed
\* integer of a numeric string, a number itself), and there is no ttl
\* attribute when the field is absent or does not convert.
C18_TtlIsEpochSeconds ==
    (IsFacetCall /\ Len(callOut) >= 1 /\ callArgs.facet.ttl # Undefined)
        => LET expected == TtlAttribute(callArgs.facet, callArgs.model)
               written == callOut[1]
           IN IF expected = Undefined
              THEN "ttl" \notin DOMAIN written
              ELSE /\ "ttl" \in DOMAIN written
                   /\ written["ttl"] = [N |-> NumberToString(expected.n, 10)]

\* C18 on the records whose TTL field is a number or is absent
C18_TtlOfNumber ==
    (IsFacetCall /\ Len(callOut) >= 1 /\ callArgs.facet.ttl # Undefined
        /\ Field(callArgs.model, "deleteAt").t \in {"number", "undefined"})
        => LET expected == TtlAttribute(callArgs.facet, callArgs.model)
               written == callOut[1]
           IN IF expected = Undefined
              THEN "ttl" \notin DOMAIN written
              ELSE /\ "ttl" \in DOMAIN written
                   /\ written["ttl"] = [N |-> NumberToString(expected.n, 10)]


\* ------------------------------------------------------------------------
\* Properties of the retry loops
\* ------------------------------------------------------------------------
IsBatch == op \in {"put", "delete", "getBatch"}

\* 1 + the retries a chunk of the running operation may make
MaxCalls == IF op = "getBatch" THEN 1 + MaxGetAttempts ELSE 1 + MaxWriteRetries

\* the bound on the store calls of a chunk, and what each position of the
\* loop says about them: a retry is pending only for unprocessed entries,
\* every call issued so far is the first call or one retry, and a chunk
\* whose first response left nothing unprocessed made that one call
CallsBounded ==
    IsBatch =>
        \A c \in DOMAIN pc :
            /\ calls[c] <= MaxCalls
            /\ pc[c] = "backoff" => Len(unprocessed[c]) > 0 /\ calls[c] = retries[c]
            /\ pc[c] \in {"awaitFirst", "awaitRetry", "done"}
                    => calls[c] = 1 + retries[c]
            /\ pc[c] = "awaitRetry" => Len(request[c]) > 0
            /\ (pc[c] = "done" /\ firstUnprocessed[c] = << >>) => calls[c] = 1
            /\ (pc[c] = "done" /\ Len(unprocessed[c]) > 0) => calls[c] = MaxCalls

\* a response that reports nothing unprocessed ends the loop of its chunk,
\* and a chunk whose loop has ended issues no further call
StopsWhenProcessed ==
    IsBatch =>
        \A c \in DOMAIN pc :
            /\ (pc[c] \in {"awaitFirst", "awaitRetry"} /\ c \in DOMAIN pc'
                    /\ pc'[c] \in {"backoff", "done"} /\ unprocessed'[c] = << >>)
                    => pc'[c] = "done"
            /\ (pc[c] \in {"done", "rejected"} /\ c \in DOMAIN pc')
                    => calls'[c] = calls[c] /\ pc'[c] = pc[c]

\* C20: every chunk of a batch put or delete issues at most 6 store calls
\* and every chunk of a batch get at most 11; a chunk stops retrying as
\* soon as a response reports nothing unprocessed, with exactly one call
\* when the first response does; and when every store call is answered
\* the batch call comes to its end.
C20_BoundedRetryAndTermination ==
    /\ []CallsBounded
    /\ [][StopsWhenProcessed]_vars
    /\ (phase = "running") ~> (phase \in {"returned", "thrown"})

\* a batch get that returned after a chunk made all 11 calls and another
\* chunk made one, and the same for a batch put with 6 calls
C20_Witness ==
    /\ phase = "returned" /\ op = "getBatch"
    /\ \E c, d \in DOMAIN pc :
        /\ calls[c] = 1 + MaxGetAttempts /\ Len(unprocessed[c]) > 0
        /\ calls[d] = 1 /\ pc[d] = "done"


\* ------------------------------------------------------------------------
\* Properties of the requests sent to the store
\* ------------------------------------------------------------------------
\* the keys of the records of chunk c
ChunkKeys(c) == {KeyOf(batches[c][j]) : j \in 1..Len(batches[c])}

AnswerStep(c) ==
    pc[c] \in {"awaitFirst", "awaitRetry"} /\ pc'[c] \in {"backoff", "done"}

RetryStep(c) == pc[c] = "backoff" /\ pc'[c] = "awaitRetry"

\* the entries of the request of chunk c that the store, answering it,
\* did not accept
ReportedUnprocessed(c) ==
    SelectSeq(request[c], LAMBDA q : q.key \notin accepted'[c])

RetriesOutstandingOnly ==
    IsBatch =>
        \A c \in DOMAIN pc \cap DOMAIN pc' :
            /\ AnswerStep(c) => unprocessed'[c] = ReportedUnprocessed(c)
            /\ (pc[c] = "backoff" /\ ~RetryStep(c))
                    => unprocessed'[c] = unprocessed[c] /\ pc'[c] = "backoff"
            /\ RetryStep(c) =>
                /\ request'[c] = unprocessed[c]
                /\ RequestKeys(request'[c]) \cap accepted[c] = {}
                /\ RequestKeys(request'[c]) \subseteq ChunkKeys(c)
                /\ \A d \in DOMAIN pc \ {c} :
                        RequestKeys(request'[c]) \cap ChunkKeys(d) = {}

\* C21: in batch put, delete and get every retry request of a chunk holds
\* exactly the entries the response before it, for the same chunk, reported
\* as unprocessed: none the store accepted, none of another chunk.
C21_RetryOnlyOutstanding == [][RetriesOutstandingOnly]_vars

\* a retry in flight for one of the keys of a full chunk, the others
\* accepted, beside another chunk
C21_Witness ==
    /\ IsBatch /\ phase = "running"
    /\ \E c \in DOMAIN pc :
        /\ pc[c] = "awaitRetry" /\ retries[c] >= 2
        /\ Len(request[c]) = 1 /\ Len(batches[c]) > 1
        /\ accepted[c] # {}
        /\ Len(batches) > 1


\* the batch ceiling of the running operation
Ceiling == IF op = "getBatch" THEN GetBatchSize ELSE WriteBatchSize

\* C22: n records are split into ceil(n / 25) chunks for a batch put or
\* delete and ceil(n / 100) for a batch get; every chunk is non-empty and
\* within the ceiling, the chunks in order make up the input, no request,
\* first or retry, carries more entries than the ceiling, and an empty input
\* issues no store call.
C22_BatchSizeCeilings ==
    (IsBatch /\ phase # "idle") =>
        /\ Len(batches) = (Len(records) + Ceiling - 1) \div Ceiling
        /\ \A c \in DOMAIN batches :
                Len(batches[c]) >= 1 /\ Len(batches[c]) <= Ceiling
        /\ Flat(batches) = records
        /\ DOMAIN pc = DOMAIN batches
        /\ \A c \in DOMAIN pc : Len(request[c]) <= Ceiling
        /\ records = << >> => DOMAIN calls = {}

\* a call with one record more than the ceiling has two chunks, the first
\* of them full and with its request in flight
C22_Witness ==
    /\ IsBatch /\ phase = "running"
    /\ Len(records) = Ceiling + 1
    /\ Len(batches) = 2
    /\ Len(request[1]) = Ceiling
    /\ Len(batches[2]) = 1


\* ------------------------------------------------------------------------
\* Properties of the de-duplication
\* ------------------------------------------------------------------------
IsRequestCall ==
    "via" \in DOMAIN callArgs /\ callArgs.via \in {"putBatch", "deleteBatch"}
        /\ callOut # << >>

RequestKind == IF callArgs.via = "putBatch" THEN "put" ELSE "delete"

\* the partition key and the sort key of a record and of a request entry
PairOf(model) ==
    <<PkOf(callArgs.facet, model), SkOf(callArgs.facet, model)>>

EntryPair(entry) ==
    IF "PutRequest" \in DOMAIN entry
    THEN <<entry.PutRequest.Item["PK"].S, entry.PutRequest.Item["SK"].S>>
    ELSE <<entry.DeleteRequest.Key.PK.S, entry.DeleteRequest.Key.SK.S>>

\* the positions of the records of the batch with the partition+sort key
\* of record i
SameKey(i) ==
    {j \in 1..Len(callArgs.batch) :
        RequestKey(callArgs.facet, callArgs.batch[j])
            = RequestKey(callArgs.facet, callArgs.batch[i])}

Last(S) == CHOOSE j \in S : \A k \in S : k <= j

EntriesFor(pair) ==
    {e \in 1..Len(callOut[1]) : EntryPair(callOut[1][e]) = pair}

\* the entries whose partition key followed by the sort key reads `key`
EntriesOfKey(key) ==
    {e \in 1..Len(callOut[1]) :
        EntryPair(callOut[1][e])[1] \o EntryPair(callOut[1][e])[2] = key}

NoDuplicateEntries ==
    \A e, f \in 1..Len(callOut[1]) :
        EntryPair(callOut[1][e]) = EntryPair(callOut[1][f]) => e = f

\* two records of the batch with different pairs and the same request key
Collides ==
    \E i, j \in 1..Len(callArgs.batch) :
        /\ PairOf(callArgs.batch[i]) # PairOf(callArgs.batch[j])
        /\ RequestKey(callArgs.facet, callArgs.batch[i])
                = RequestKey(callArgs.facet, callArgs.batch[j])

LastOfKeyWins ==
    \A i \in 1..Len(callArgs.batch) :
        \E e \in 1..Len(callOut[1]) :
            /\ EntriesOfKey(RequestKey(callArgs.facet, callArgs.batch[i])) = {e}
            /\ callOut[1][e] = WriteRequest(RequestKind, callArgs.facet,
                                            callArgs.batch[Last(SameKey(i))])

C27_DistinctKeysKeptApart ==
    IsRequestCall =>
        \A i \in 1..Len(callArgs.batch) :
            Cardinality(EntriesFor(PairOf(callArgs.batch[i]))) = 1

\* C27 on the batches in which no two different pairs have the same
\* request key
C27_DistinctKeysKeptApartApart ==
    (IsRequestCall /\ ~Collides) =>
        \A i \in 1..Len(callArgs.batch) :
            Cardinality(EntriesFor(PairOf(callArgs.batch[i]))) = 1


\* ------------------------------------------------------------------------
\* Properties of the fan-out
\* ------------------------------------------------------------------------
\* every chunk has had its first request issued as soon as the call is
\* running, unless building the request threw
FannedOut ==
    \A c \in DOMAIN pc : calls[c] >= 1 \/ (pc[c] = "rejected" /\ calls[c] = 0)

\* a chunk has a request in flight exactly while it awaits a response, and
\* has issued one call per retry counted, the pending one apart
OneRequestPerChunk ==
    \A c \in DOMAIN pc :
        /\ pc[c] \in {"awaitFirst", "awaitRetry"} <=> request[c] # << >>
        /\ pc[c] = "awaitFirst" => calls[c] = 1 /\ retries[c] = 0
        /\ pc[c] = "awaitRetry" => calls[c] = 1 + retries[c]
        /\ pc[c] = "backoff" => calls[c] = retries[c]

\* the ways the event pending for chunk c can end a batch get when it
\* arrives next: the store call rejects (BatchGetReject), or the store
\* answers with an item facet.out throws on (BatchGetAnswer)
PendingEnds(c) ==
    IF pc[c] \notin {"awaitFirst", "awaitRetry"} THEN {}
    ELSE {[error |-> TransportError]}
            \cup (IF /\ ~HasDuplicateKeys(request[c])
                      /\ \E U \in Throttle(request[c]) :
                            GatherThrows(StoreResponses(
                                store, RequestKeys(request[c]) \ U))
                   THEN {[error |-> ValidationError]} ELSE {})

\* whichever of two pending chunk events arrives first, the call ends the
\* same way
ArrivalOrderFree ==
    \A c, d \in DOMAIN pc :
        c # d => \A e \in PendingEnds(c), f \in PendingEnds(d) : e = f

\* C24: the first request of every chunk is issued before any response is
\* awaited, a chunk has at most one request outstanding and retries only
\* after the response before and the backoff, and the result of the call
\* does not depend on the order in which the responses of the chunks arrive.
C24_FanOutSequentialRetries ==
    (IsBatch /\ phase = "running") =>
        /\ FannedOut
        /\ OneRequestPerChunk
        /\ op = "getBatch" => ArrivalOrderFree

\* C24 without the independence of the arrival order
C24_FanOutOneRequestPerChunk ==
    (IsBatch /\ phase = "running") => FannedOut /\ OneRequestPerChunk


\* ------------------------------------------------------------------------
\* Properties of the structure of keys
\* ------------------------------------------------------------------------
KeyCallDone == IsKeyCall /\ phase # "idle"

\* one segment per key field, in configuration order: the string of a
\* string, number, boolean or bigint, the ISO string of a Date, nothing for
\* any other value
RECURSIVE SegmentsOf(_, _)
SegmentsOf(keys, model) ==
    IF keys = << >> THEN << >>
    ELSE LET value == Field(model, Head(keys))
         IN (IF value.t = "string" THEN <<value.v>>
             ELSE IF value.t \in {"number", "bigint"}
                  THEN <<NumberToString(value.n, 10)>>
                  ELSE IF value.t = "boolean"
                       THEN <<IF value.b THEN "true" ELSE "false">>
                       ELSE IF value.t = "date" THEN <<value.iso>> ELSE << >>)
                \o SegmentsOf(Tail(keys), model)

\* hex strings that can stand as a shard segment
HexSegments ==
    {PadStart(NumberToString(k, 16), w) : k \in 0..MaxCount, w \in 1..2}

HasKeyStructure ==
    /\ phase = "returned"
    /\ IF HasShard(callArgs.keyConfig)
       THEN \E segment \in HexSegments :
                callOut[1] = Join(<<callArgs.keyConfig.prefix, segment>>
                                    \o SegmentsOf(callArgs.keyConfig.keys,
                                                  callArgs.model),
                                  callArgs.delimiter)
       ELSE callOut[1] = Join(<<callArgs.keyConfig.prefix>>
                                \o SegmentsOf(callArgs.keyConfig.keys,
                                              callArgs.model),
                              callArgs.delimiter)

\* C25: buildKey never throws and returns the prefix, then one shard segment
\* if and only if the configuration has a shard, then one segment per key
\* field in configuration order, joined by the delimiter.
C25_KeyStructure == KeyCallDone => HasKeyStructure

\* C25 on the records whose key fields hold no invalid Date
C25_KeyStructureOfValidDates ==
    (KeyCallDone
        /\ ~ToISOStringThrows(callArgs.keyConfig.keys, callArgs.model))
        => HasKeyStructure


\* the names of the buckets of a shard configuration: the hex strings of
\* 0 .. count - 1, padded to the length of the hex string of count - 1
BucketNames(count) ==
    {PadStart(NumberToString(k, 16), Len(NumberToString(count - 1, 16))) :
        k \in 0..(count - 1)}

HasBucketSegment ==
    \E segment \in BucketNames(callArgs.keyConfig.shard.count) :
        callOut[1] = Join(<<callArgs.keyConfig.prefix, segment>>
                            \o FieldSegments(callArgs.keyConfig.keys,
                                             callArgs.model),
                          callArgs.delimiter)

\* the shard argument is not a bucket number at or above the bucket count
ShardInRange ==
    callArgs.shard.t = "number" => callArgs.shard.n < callArgs.keyConfig.shard.count

\* C28: with a sharded key configuration of n >= 1 buckets, the shard
\* segment of every key buildKey returns, hashed from the record or given as
\* the shard argument, is a hex string of len(hex(n - 1)) digits that names
\* a bucket in [0, n).
C28_ShardSegmentIsBucket ==
    (IsKeyCall /\ phase = "returned" /\ HasShard(callArgs.keyConfig))
        => HasBucketSegment

\* C28 on the calls whose shard argument, if any, is below the bucket count
C28_ShardSegmentOfBucketArgument ==
    (IsKeyCall /\ phase = "returned" /\ HasShard(callArgs.keyConfig)
        /\ ShardInRange)
        => HasBucketSegment


\* ------------------------------------------------------------------------
\* Properties of Facet.addIndex
\* ------------------------------------------------------------------------
IsAddIndexCall ==
    "via" \in DOMAIN callArgs /\ callArgs.via = "addIndex" /\ callOut # << >>

\* the members the facet had before the call: its own properties and the
\* methods of its class
ExistingMembers == DOMAIN callArgs.facet.own \cup FacetMethods

AliasGiven == callArgs.options.alias # Undefined /\ callArgs.options.alias.v # ""

\* C26: addIndex throws, and defines no alias property, whenever the alias
\* is the name of an existing method or property of the facet; an alias
\* that passes the guard never replaces an existing member.
C26_AliasCollisionGuard ==
    (IsAddIndexCall /\ AliasGiven) =>
        LET alias == callArgs.options.alias.v
            after == callOut[1]
        IN /\ alias \in ExistingMembers =>
                /\ Throws(after)
                /\ alias # callArgs.options.index =>
                        /\ alias \in DOMAIN after.facet.own
                                <=> alias \in DOMAIN callArgs.facet.own
                        /\ alias \in DOMAIN callArgs.facet.own =>
                                after.facet.own[alias] = callArgs.facet.own[alias]
           /\ ~Throws(after) => alias \notin ExistingMembers

\* C26 on the aliases that are not names of methods of the class
C26_AliasCollisionGuardOfProperties ==
    (IsAddIndexCall /\ AliasGiven /\ callArgs.options.alias.v \notin FacetMethods) =>
        LET alias == callArgs.options.alias.v
            after == callOut[1]
        IN /\ alias \in ExistingMembers =>
                /\ Throws(after)
                /\ alias # callArgs.options.index =>
                        /\ alias \in DOMAIN after.facet.own
                                <=> alias \in DOMAIN callArgs.facet.own
                        /\ alias \in DOMAIN callArgs.facet.own =>
                                after.facet.own[alias] = callArgs.facet.own[alias]
           /\ ~Throws(after) => alias \notin ExistingMembers

\* the key attributes of the index of the call
IndexAttributes ==
    {IndexKeyNames(callArgs.options.index).PK, IndexKeyNames(callArgs.options.index).SK}

WasRegistered ==
    \E i \in 1..Len(callArgs.facet.indexes) :
        callArgs.facet.indexes[i].index = callArgs.options.index

\* C30: when addIndex throws because the alias exists, the facet is as it
\* was before the call: the index is not registered, in() writes no key
\* attributes for it, and no index or alias property is defined.
LaterInWritesNoIndexKeys ==
    (Len(callOut) >= 2 /\ ~WasRegistered) =>
        DOMAIN callOut[2] \cap IndexAttributes = {}

C30_AddIndexAtomicOnError ==
    (IsAddIndexCall /\ Throws(callOut[1])) =>
        /\ callOut[1].facet = callArgs.facet
        /\ LaterInWritesNoIndexKeys

\* what a throwing addIndex does leave alone: the indexes registered before
\* it and every property but the one named after the index
C30_AddIndexThrowKeepsTheRest ==
    (IsAddIndexCall /\ Throws(callOut[1])) =>
        /\ \A i \in 1..Len(callArgs.facet.indexes) :
                callArgs.facet.indexes[i].index # callArgs.options.index =>
                    callOut[1].facet.indexes[i] = callArgs.facet.indexes[i]
        /\ \A p \in DOMAIN callArgs.facet.own \ {callArgs.options.index} :
                callOut[1].facet.own[p] = callArgs.facet.own[p]
        /\ DOMAIN callOut[1].facet.own
                = DOMAIN callArgs.facet.own \cup {callArgs.options.index}


\* ------------------------------------------------------------------------
\* Properties of the fluent condition builder
\* ------------------------------------------------------------------------
IsBuilt == "via" \in DOMAIN callArgs /\ callArgs.via = "Condition" /\ Len(callOut) = 2

\* the built array cut into one run per condition: a run starts at each
\* AND / OR
RECURSIVE Runs(_, _)
Runs(statements, acc) ==
    IF statements = << >> THEN acc
    ELSE IF Head(statements) \in {"AND", "OR"} \/ acc = << >>
         THEN Runs(Tail(statements), Append(acc, <<Head(statements)>>))
         ELSE Runs(Tail(statements),
                   [acc EXCEPT ![Len(acc)] = Append(@, Head(statements))])

BuiltRuns == Runs(callOut[2].conditionStatements, << >>)

Connective(method) == IF method \in {"and", "andNot"} THEN "AND" ELSE "OR"

\* link i appears as `AND NOT ...` / `OR NOT ...`, respectively without NOT
AppearsNegated(i) ==
    /\ Len(BuiltRuns[i]) = 3
    /\ BuiltRuns[i][1] = Connective(LinkAt(i).method)
    /\ BuiltRuns[i][2] = "NOT"

AppearsPlain(i) ==
    /\ Len(BuiltRuns[i]) = 2
    /\ BuiltRuns[i][1] = Connective(LinkAt(i).method)

NotCalled(i) == "invert" \in DOMAIN LinkAt(i) /\ LinkAt(i).invert

\* what the statement owes to link i
NegationShown(i) ==
    /\ (LinkAt(i).method \in {"andNot", "orNot"} /\ ~NotCalled(i)) => AppearsNegated(i)
    /\ (LinkAt(i).method \in {"and", "or"} /\ ~NotCalled(i)) => AppearsPlain(i)
    /\ (LinkAt(i).method \in {"and", "or"} /\ NotCalled(i)) => AppearsNegated(i)

\* C29: every condition added through andNot(...) or orNot(...), by key and
\* operator call or as a group, appears in the built statement preceded by
\* NOT (AND NOT ... / OR NOT ...); conditions added through and(...) / or(...)
\* appear without NOT unless not() was called on them.
C29_NegatingMethodsNegate ==
    IsBuilt =>
        /\ Len(BuiltRuns) = Len(callArgs.links)
        /\ callOut[2].statement = Join(callOut[2].conditionStatements, " ")
        /\ \A i \in 2..Len(callArgs.links) : NegationShown(i)

\* C29 on the links that do negate as stated: and, or, and andNot with a
\* condition group
C29_NegationOfAndOrAndNotGroup ==
    IsBuilt =>
        /\ Len(BuiltRuns) = Len(callArgs.links)
        /\ \A i \in 2..Len(callArgs.links) :
                (\/ LinkAt(i).method \in {"and", "or"}
                 \/ LinkAt(i).method = "andNot" /\ "group" \in DOMAIN LinkAt(i))
                    => NegationShown(i)

\* the statement of the builder's own test, up to its third condition
BuildsTestStatement ==
    (IsBuilt /\ callOut[2].statement =
        "#con_0_name = :con_0_name AND #con_1_age >= :con_1_age AND NOT (#con_2_0_status = :con_2_0_status)")

====
